---------------------------- MODULE Spec2Model ----------------------------
(***************************************************************************)
(* AES67 router / sender (Node-RED nodes): SAP discovery, the stream       *)
(* registry with its TTL sweep, the SAP packet codec and the RTP packet    *)
(* builder.                                                                *)
(*                                                                         *)
(* Texts (JavaScript strings) are sequences of code points, datagrams      *)
(* (Buffers) are sequences of bytes 0..255.  Buffer offsets are 0-based as *)
(* in the source: At(b, i) is b[i].                                        *)
(***************************************************************************)
EXTENDS Integers, Sequences, FiniteSets, TLC

(***************************************************************************)
(* JavaScript values                                                       *)
(***************************************************************************)

\* parseInt's "not a number"
NaN == [nan |-> TRUE, val |-> 0]

Num(n) == [nan |-> FALSE, val |-> n]

\* a JavaScript number is falsy when it is NaN or 0 (x || d)
OrDefault(x, d) == IF x.nan \/ x.val = 0 THEN d ELSE x.val

IsDigit(c) == c >= 48 /\ c <= 57

\* white space parseInt skips: space, tab, LF, CR
IsSpace(c) == c \in {32, 9, 10, 13}

RECURSIVE SkipSpaces(_, _)
SkipSpaces(t, i) ==
    IF i <= Len(t) /\ IsSpace(t[i]) THEN SkipSpaces(t, i + 1) ELSE i

RECURSIVE DigitsValue(_, _, _)
DigitsValue(t, i, acc) ==
    IF i <= Len(t) /\ IsDigit(t[i])
    THEN DigitsValue(t, i + 1, acc * 10 + (t[i] - 48))
    ELSE acc

\* parseInt(text): leading white space, an optional sign, then the longest
\* run of decimal digits; NaN when there is no digit
ParseInt(t) ==
    LET i == SkipSpaces(t, 1)
        neg == i <= Len(t) /\ t[i] = 45
        j == IF i <= Len(t) /\ t[i] \in {43, 45} THEN i + 1 ELSE i
    IN  IF j <= Len(t) /\ IsDigit(t[j])
        THEN Num(IF neg THEN 0 - DigitsValue(t, j, 0) ELSE DigitsValue(t, j, 0))
        ELSE NaN

RECURSIVE Decimal(_)
\* `${n}` for a non-negative integer
Decimal(n) ==
    IF n < 10 THEN <<48 + n>> ELSE Decimal(n \div 10) \o <<48 + (n % 10)>>

\* 1, 2, ..., n
Indices(n) == [i \in 1..n |-> i]

\* text.split(sep) for one-character separators: the pieces between the
\* positions holding a character of seps
SplitOn(t, seps) ==
    LET at == SelectSeq(Indices(Len(t)), LAMBDA i : t[i] \in seps)
        from(k) == IF k = 1 THEN 1 ELSE at[k - 1] + 1
        to(k) == IF k = Len(at) + 1 THEN Len(t) ELSE at[k] - 1
    IN  [k \in 1..(Len(at) + 1) |-> SubSeq(t, from(k), to(k))]

Split(t, sep) == SplitOn(t, {sep})

\* text.startsWith(p)
StartsWith(t, p) == Len(t) >= Len(p) /\ SubSeq(t, 1, Len(p)) = p

\* text.includes(p)
Includes(t, p) ==
    \E i \in 1..(Len(t) - Len(p) + 1) : SubSeq(t, i, i + Len(p) - 1) = p

\* buf[i]
At(b, i) == b[i + 1]

\* buf.slice(from, to): bytes from .. to-1, clamped to the buffer
Slice(b, from, to) ==
    LET e == IF to > Len(b) THEN Len(b) ELSE to
    IN  IF from >= e THEN <<>> ELSE SubSeq(b, from + 1, e)

\* buf.readUInt16BE(i)
ReadUInt16BE(b, i) == At(b, i) * 256 + At(b, i + 1)

\* storing a parseInt result into a Buffer element: NaN stores 0, a number
\* is stored modulo 256
ToByte(x) == IF x.nan THEN 0 ELSE x.val % 256

IsCont(b, i) == i >= 1 /\ i <= Len(b) /\ b[i] >= 128 /\ b[i] <= 191

\* a well-formed two-byte sequence starts at i
IsSeq2(b, i) == i >= 1 /\ i <= Len(b) /\ b[i] >= 194 /\ b[i] <= 223 /\ IsCont(b, i + 1)

\* a well-formed three-byte sequence starts at i
IsSeq3(b, i) ==
    /\ i >= 1 /\ i <= Len(b) /\ b[i] >= 224 /\ b[i] <= 239
    /\ IsCont(b, i + 1) /\ IsCont(b, i + 2)
    /\ (b[i] = 224 => b[i + 1] >= 160)
    /\ (b[i] = 237 => b[i + 1] <= 159)

\* byte i continues a sequence that starts one or two bytes before it
IsConsumed(b, i) == IsSeq2(b, i - 1) \/ IsSeq3(b, i - 1) \/ IsSeq3(b, i - 2)

\* the code point decoded at a position that starts a character; a byte
\* that starts no well-formed sequence decodes to U+FFFD
CodePointAt(b, i) ==
    IF b[i] < 128 THEN b[i]
    ELSE IF IsSeq2(b, i) THEN (b[i] - 192) * 64 + (b[i + 1] - 128)
    ELSE IF IsSeq3(b, i)
         THEN (b[i] - 224) * 4096 + (b[i + 1] - 128) * 64 + (b[i + 2] - 128)
    ELSE 65533

\* buf.toString('utf8'), for one- to three-byte sequences
Utf8Decode(b) ==
    LET starts == SelectSeq(Indices(Len(b)), LAMBDA i : ~IsConsumed(b, i))
    IN  [k \in 1..Len(starts) |-> CodePointAt(b, starts[k])]

\* the UTF-8 bytes of one code point below U+10000
Utf8Bytes(c) ==
    IF c < 128 THEN <<c>>
    ELSE IF c < 2048 THEN <<192 + (c \div 64), 128 + (c % 64)>>
    ELSE <<224 + (c \div 4096), 128 + ((c \div 64) % 64), 128 + (c % 64)>>

RECURSIVE ConcatRange(_, _, _)
\* ss[lo] \o ... \o ss[hi]
ConcatRange(ss, lo, hi) ==
    IF lo > hi THEN <<>>
    ELSE IF lo = hi THEN ss[lo]
    ELSE LET mid == (lo + hi) \div 2
         IN  ConcatRange(ss, lo, mid) \o ConcatRange(ss, mid + 1, hi)

\* Buffer.from(text, 'utf8')
Utf8Encode(t) == ConcatRange([i \in 1..Len(t) |-> Utf8Bytes(t[i])], 1, Len(t))

(***************************************************************************)
(* SAP codec                                                               *)
(***************************************************************************)

\* 'sdp'
TextSdp == <<115, 100, 112>>

\* 'v=0'
TextV0 == <<118, 61, 48>>

\* Buffer.from('application/sdp\0', 'ascii')
PayloadTypeTag == <<97, 112, 112, 108, 105, 99, 97, 116, 105, 111, 110, 47, 115, 100, 112, 0>>

\* sourceIP.split('.').map(p => parseInt(p)), then ipParts[i] stored as a
\* byte (a missing part is undefined and stores 0)
IpByte(ip, i) ==
    LET parts == Split(ip, 46)
    IN  IF i + 1 <= Len(parts) THEN ToByte(ParseInt(parts[i + 1])) ELSE 0

\* the packet both SAPAnnouncer.createSAPPacket and sendDeletion lay out:
\* 8 header bytes, the payload type with its terminator, the SDP text
SenderSAPLayout(byte0, sdpData, sourceIP, msgIdHash) ==
    <<byte0, 0, msgIdHash \div 256, msgIdHash % 256,
      IpByte(sourceIP, 0), IpByte(sourceIP, 1), IpByte(sourceIP, 2), IpByte(sourceIP, 3)>>
    \o PayloadTypeTag \o Utf8Encode(sdpData)

\* 8 header bytes, then only the first 8 bytes of 'application/sdp' and no
\* terminator before the SDP text
CreateSAPPacketShortTag(sdpData, sourceIP, msgIdHash) ==
    <<32, 0, msgIdHash \div 256, msgIdHash % 256,
      IpByte(sourceIP, 0), IpByte(sourceIP, 1), IpByte(sourceIP, 2), IpByte(sourceIP, 3)>>
    \o SubSeq(PayloadTypeTag, 1, 8) \o Utf8Encode(sdpData)

\* SAPAnnouncer.createSAPPacket: byte 0 = 0x20 (version 1, IPv4, announce)
CreateSAPPacket(sdpData, sourceIP, msgIdHash) ==
    SenderSAPLayout(32, sdpData, sourceIP, msgIdHash)

\* the packet SAPAnnouncer.sendDeletion sends: byte 0 = 0x24 (delete)
DeletionPacket(sdpData, sourceIP, msgIdHash) ==
    SenderSAPLayout(36, sdpData, sourceIP, msgIdHash)

\* sapHeader of handleSAPMessage
SapVersion(msg) == (At(msg, 0) \div 32) % 8

SapMessageType(msg) == (At(msg, 0) \div 4) % 2

SapAuthLength(msg) == At(msg, 1)

\* `${msg[4]}.${msg[5]}.${msg[6]}.${msg[7]}`
SapSourceIP(msg) ==
    Decimal(At(msg, 4)) \o <<46>> \o Decimal(At(msg, 5)) \o <<46>>
    \o Decimal(At(msg, 6)) \o <<46>> \o Decimal(At(msg, 7))

\* sdpOffset after the authentication data
SapOffsetAuth(msg) == 8 + SapAuthLength(msg) * 4

\* while (sdpOffset < msg.length && msg[sdpOffset] !== 0) sdpOffset++
ScanToNull(msg, off) ==
    LET zeros == {i \in off..(Len(msg) - 1) : At(msg, i) = 0}
    IN  IF zeros # {} THEN CHOOSE i \in zeros : \A j \in zeros : i <= j
        ELSE IF off < Len(msg) THEN Len(msg) ELSE off

\* sdpOffset after the scan and the skipped terminator
SapOffsetNull(msg) == ScanToNull(msg, SapOffsetAuth(msg)) + 1

\* sdpOffset after the optional 8-byte payload type identifier
SapOffsetPayload(msg) ==
    LET off == SapOffsetNull(msg)
    IN  IF off + 8 < Len(msg)
           /\ Includes(Utf8Decode(Slice(msg, off, off + 8)), TextSdp)
        THEN off + 8 ELSE off

\* a datagram handleSAPMessage returns on without calling parseSDP; stage
\* names the return statement taken
SapDropped(stage) ==
    [deliver |-> FALSE, stage |-> stage, sourceIP |-> <<>>, sdpData |-> <<>>,
     messageType |-> 0]

\* handleSAPMessage without the test of the version field
DecodeSAPAnyVersion(msg) ==
    IF Len(msg) < 8 THEN SapDropped("length")
    ELSE IF SapOffsetAuth(msg) >= Len(msg) THEN SapDropped("auth")
    ELSE IF SapOffsetNull(msg) >= Len(msg) THEN SapDropped("terminator")
    ELSE IF SapOffsetPayload(msg) >= Len(msg) THEN SapDropped("payload")
    ELSE LET sdpData == Utf8Decode(Slice(msg, SapOffsetPayload(msg), Len(msg)))
         IN  IF sdpData # <<>> /\ StartsWith(sdpData, TextV0)
             THEN [deliver |-> TRUE, stage |-> "parseSDP",
                   sourceIP |-> SapSourceIP(msg), sdpData |-> sdpData,
                   messageType |-> SapMessageType(msg)]
             ELSE SapDropped("text")

\* handleSAPMessage up to the parseSDP call: what is handed to parseSDP, or
\* a drop
DecodeSAP(msg) ==
    IF Len(msg) < 8 THEN SapDropped("length")
    ELSE IF SapVersion(msg) # 1 THEN SapDropped("version")
    ELSE IF SapOffsetAuth(msg) >= Len(msg) THEN SapDropped("auth")
    ELSE IF SapOffsetNull(msg) >= Len(msg) THEN SapDropped("terminator")
    ELSE IF SapOffsetPayload(msg) >= Len(msg) THEN SapDropped("payload")
    ELSE LET sdpData == Utf8Decode(Slice(msg, SapOffsetPayload(msg), Len(msg)))
         IN  IF sdpData # <<>> /\ StartsWith(sdpData, TextV0)
             THEN [deliver |-> TRUE, stage |-> "parseSDP",
                   sourceIP |-> SapSourceIP(msg), sdpData |-> sdpData,
                   messageType |-> SapMessageType(msg)]
             ELSE SapDropped("text")

(***************************************************************************)
(* SDP text to session object: sdp.parse of the sdp-transform package, for *)
(* the line types the router reads (o=, s=, i=, c=, m=, a=rtpmap and       *)
(* a=ptime).  An optional property is <<>> when undefined and <<v>> when   *)
(* set.                                                                    *)
(***************************************************************************)

None == <<>>

Some(v) == <<v>>

\* 'audio'
TextAudio == <<97, 117, 100, 105, 111>>

\* 'RTP/AVP'
TextRtpAvp == <<82, 84, 80, 47, 65, 86, 80>>

\* 'IN'
TextIN == <<73, 78>>

\* 'rtpmap:'
TextRtpmapColon == <<114, 116, 112, 109, 97, 112, 58>>

\* 'ptime:'
TextPtimeColon == <<112, 116, 105, 109, 101, 58>>

\* 'AES67 Stream'
TextDefaultName == <<65, 69, 83, 54, 55, 32, 83, 116, 114, 101, 97, 109>>

\* 'unknown'
TextUnknown == <<117, 110, 107, 110, 111, 119, 110>>

\* 'L16'
TextL16 == <<76, 49, 54>>

\* 'L24'
TextL24 == <<76, 50, 52>>

\* 'ptp=IEEE1588-2008:00-00-00-00-00-00-00-00:0'
TextDefaultClock == <<112, 116, 112, 61, 73, 69, 69, 69, 49, 53, 56, 56, 45, 50, 48, 48, 56, 58, 48, 48, 45, 48, 48, 45, 48, 48, 45, 48, 48, 45, 48, 48, 45, 48, 48, 45, 48, 48, 45, 48, 48, 58, 48>>

AllDigits(t) == \A i \in 1..Len(t) : IsDigit(t[i])

\* \w
IsWord(c) == IsDigit(c) \/ (c >= 65 /\ c <= 90) \/ (c >= 97 /\ c <= 122) \/ c = 95

RECURSIVE WordSlashPrefix(_, _)
\* the longest prefix matching [\w/]*
WordSlashPrefix(t, i) ==
    IF i <= Len(t) /\ (IsWord(t[i]) \/ t[i] = 47)
    THEN <<t[i]>> \o WordSlashPrefix(t, i + 1) ELSE <<>>

\* 'IP' followed by one digit
IsIPn(t) == Len(t) = 3 /\ t[1] = 73 /\ t[2] = 80 /\ IsDigit(t[3])

\* sdp.split(/(\r\n|\r|\n)/): the pieces between line breaks (the empty
\* piece between CR and LF is no valid line)
SplitLines(t) == SplitOn(t, {10, 13})

\* validLine: /^([a-z])=(.*)/
ValidLine(l) == Len(l) >= 2 /\ l[1] >= 97 /\ l[1] <= 122 /\ l[2] = 61

EmptySession ==
    [origin |-> None, name |-> None, description |-> None, connection |-> None,
     media |-> <<>>]

\* a media object as sdp.parse creates it; the parser never sets the
\* properties mediaclk, rtpmap and tsRefClk (it stores a=rtpmap under rtp and
\* a=mediaclk under mediaClk)
NewMedia ==
    [type |-> None, port |-> None, protocol |-> None, payloads |-> None,
     connection |-> None, rtp |-> <<>>, ptime |-> None, mediaclk |-> None,
     rtpmap |-> None, tsRefClk |-> None]

\* m=<type> <port> <protocol> <payloads>
ParseMediaLine(content) ==
    LET tk == Split(content, 32)
    IN  IF Len(tk) >= 3 /\ (\A i \in 1..Len(tk[1]) : IsWord(tk[1][i])) /\ AllDigits(tk[2])
        THEN [NewMedia EXCEPT
                !.type = Some(tk[1]),
                !.port = IF tk[2] = <<>> THEN None ELSE Some(ParseInt(tk[2]).val),
                !.protocol = Some(WordSlashPrefix(tk[3], 1)),
                !.payloads = IF Len(tk) >= 4 THEN Some(tk[4]) ELSE None]
        ELSE NewMedia

\* c=IN IP4 <ip>
ParseConnection(content) ==
    LET tk == Split(content, 32)
    IN  IF Len(tk) >= 3 /\ tk[1] = TextIN /\ IsIPn(tk[2])
        THEN Some([version |-> tk[2][3] - 48, ip |-> tk[3]])
        ELSE None

\* o=<username> <sessionId> <sessionVersion> <netType> IP4 <address>
ParseOrigin(content) ==
    LET tk == Split(content, 32)
    IN  IF Len(tk) >= 6 /\ AllDigits(tk[2]) /\ AllDigits(tk[3]) /\ IsIPn(tk[5])
        THEN Some([username |-> tk[1], sessionId |-> tk[2], unicastAddress |-> tk[6]])
        ELSE None

\* a=rtpmap:<payload> <codec>/<rate>/<encoding>, pushed to media.rtp
ParseRtpmap(content) ==
    LET tk == Split(SubSeq(content, 8, Len(content)), 32)
        parts == IF Len(tk) >= 2 THEN Split(tk[2], 47) ELSE <<>>
    IN  IF Len(tk) >= 2 /\ AllDigits(tk[1])
        THEN Some([payload |-> tk[1],
                   codec |-> parts[1],
                   rate |-> IF Len(parts) >= 2 /\ AllDigits(parts[2]) /\ parts[2] # <<>>
                            THEN Some(ParseInt(parts[2]).val) ELSE None,
                   encoding |-> IF Len(parts) >= 3 /\ AllDigits(parts[2])
                                THEN Some(parts[3]) ELSE None])
        ELSE None

\* one line applied to the session: to the session itself before the first
\* m= line, to the last media object after it
ApplyLine(session, l) ==
    LET type == l[1]
        content == SubSeq(l, 3, Len(l))
        n == Len(session.media)
    IN  IF type = 109
        THEN [session EXCEPT !.media = Append(@, ParseMediaLine(content))]
        ELSE IF n = 0
        THEN CASE type = 111 /\ ParseOrigin(content) # None ->
                      [session EXCEPT !.origin = ParseOrigin(content)]
               [] type = 115 -> [session EXCEPT !.name = Some(content)]
               [] type = 105 -> [session EXCEPT !.description = Some(content)]
               [] type = 99 /\ ParseConnection(content) # None ->
                      [session EXCEPT !.connection = ParseConnection(content)]
               [] OTHER -> session
        ELSE CASE type = 99 /\ ParseConnection(content) # None ->
                      [session EXCEPT !.media[n].connection = ParseConnection(content)]
               [] type = 97 /\ StartsWith(content, TextRtpmapColon)
                            /\ ParseRtpmap(content) # None ->
                      [session EXCEPT !.media[n].rtp = @ \o ParseRtpmap(content)]
               [] type = 97 /\ StartsWith(content, TextPtimeColon)
                            /\ AllDigits(SubSeq(content, 7, Len(content)))
                            /\ Len(content) > 6 ->
                      [session EXCEPT !.media[n].ptime =
                           Some(ParseInt(SubSeq(content, 7, Len(content))).val)]
               [] OTHER -> session

RECURSIVE ApplyLines(_, _, _)
ApplyLines(session, lines, i) ==
    IF i > Len(lines) THEN session
    ELSE ApplyLines(IF ValidLine(lines[i]) THEN ApplyLine(session, lines[i]) ELSE session,
                    lines, i + 1)

\* sdp.parse(sdpString)
SdpParse(sdpString) == ApplyLines(EmptySession, SplitLines(sdpString), 1)

(***************************************************************************)
(* Inputs                                                                  *)
(***************************************************************************)

\* SDP of a 2-channel L24 stream on port 5004:
\*   v=0\r\n
\*   o=- 1 1 IN IP4 192.168.1.10\r\n
\*   s=Test\r\n
\*   c=IN IP4 239.69.1.1\r\n
\*   t=0 0\r\n
\*   m=audio 5004 RTP/AVP 96\r\n
\*   a=rtpmap:96 L24/48000/2\r\n
SdpA == <<118, 61, 48, 13, 10, 111, 61, 45, 32, 49, 32, 49, 32, 73, 78, 32, 73, 80, 52, 32, 49, 57, 50, 46, 49, 54, 56, 46, 49, 46, 49, 48, 13, 10, 115, 61, 84, 101, 115, 116, 13, 10, 99, 61, 73, 78, 32, 73, 80, 52, 32, 50, 51, 57, 46, 54, 57, 46, 49, 46, 49, 13, 10, 116, 61, 48, 32, 48, 13, 10, 109, 61, 97, 117, 100, 105, 111, 32, 53, 48, 48, 52, 32, 82, 84, 80, 47, 65, 86, 80, 32, 57, 54, 13, 10, 97, 61, 114, 116, 112, 109, 97, 112, 58, 57, 54, 32, 76, 50, 52, 47, 52, 56, 48, 48, 48, 47, 50, 13, 10>>

\* the same session re-announced with 8 channels of L16 at 44100 Hz:
\*   v=0\r\n
\*   o=- 1 2 IN IP4 192.168.1.10\r\n
\*   s=Test\r\n
\*   c=IN IP4 239.69.1.1\r\n
\*   t=0 0\r\n
\*   m=audio 5004 RTP/AVP 96\r\n
\*   a=rtpmap:96 L16/44100/8\r\n
SdpA2 == <<118, 61, 48, 13, 10, 111, 61, 45, 32, 49, 32, 50, 32, 73, 78, 32, 73, 80, 52, 32, 49, 57, 50, 46, 49, 54, 56, 46, 49, 46, 49, 48, 13, 10, 115, 61, 84, 101, 115, 116, 13, 10, 99, 61, 73, 78, 32, 73, 80, 52, 32, 50, 51, 57, 46, 54, 57, 46, 49, 46, 49, 13, 10, 116, 61, 48, 32, 48, 13, 10, 109, 61, 97, 117, 100, 105, 111, 32, 53, 48, 48, 52, 32, 82, 84, 80, 47, 65, 86, 80, 32, 57, 54, 13, 10, 97, 61, 114, 116, 112, 109, 97, 112, 58, 57, 54, 32, 76, 49, 54, 47, 52, 52, 49, 48, 48, 47, 56, 13, 10>>

\* a session with an audio section on port 5006 (media-level unicast
\* connection), a video section and an audio section with port 0:
\*   v=0\r\n
\*   o=- 2 1 IN IP4 192.168.1.11\r\n
\*   s=Multi\r\n
\*   t=0 0\r\n
\*   m=audio 5006 RTP/AVP 97\r\n
\*   c=IN IP4 10.0.0.5\r\n
\*   a=rtpmap:97 L16/48000/2\r\n
\*   a=ptime:4\r\n
\*   m=video 5008 RTP/AVP 98\r\n
\*   m=audio 0 RTP/AVP 99\r\n
SdpB == <<118, 61, 48, 13, 10, 111, 61, 45, 32, 50, 32, 49, 32, 73, 78, 32, 73, 80, 52, 32, 49, 57, 50, 46, 49, 54, 56, 46, 49, 46, 49, 49, 13, 10, 115, 61, 77, 117, 108, 116, 105, 13, 10, 116, 61, 48, 32, 48, 13, 10, 109, 61, 97, 117, 100, 105, 111, 32, 53, 48, 48, 54, 32, 82, 84, 80, 47, 65, 86, 80, 32, 57, 55, 13, 10, 99, 61, 73, 78, 32, 73, 80, 52, 32, 49, 48, 46, 48, 46, 48, 46, 53, 13, 10, 97, 61, 114, 116, 112, 109, 97, 112, 58, 57, 55, 32, 76, 49, 54, 47, 52, 56, 48, 48, 48, 47, 50, 13, 10, 97, 61, 112, 116, 105, 109, 101, 58, 52, 13, 10, 109, 61, 118, 105, 100, 101, 111, 32, 53, 48, 48, 56, 32, 82, 84, 80, 47, 65, 86, 80, 32, 57, 56, 13, 10, 109, 61, 97, 117, 100, 105, 111, 32, 48, 32, 82, 84, 80, 47, 65, 86, 80, 32, 57, 57, 13, 10>>

\* '192.168.1.10'
Ip10 == <<49, 57, 50, 46, 49, 54, 56, 46, 49, 46, 49, 48>>

\* '192.168.1.11'
Ip11 == <<49, 57, 50, 46, 49, 54, 56, 46, 49, 46, 49, 49>>

\* crypto.randomBytes(8).toString('hex')
RandomIds == {<<48, 48, 49, 49, 50, 50, 51, 51, 97, 97, 98, 98, 99, 99, 100, 100>>}

DgAnnounceA == CreateSAPPacket(SdpA, Ip10, 4660)

DgDeleteA == DeletionPacket(SdpA, Ip10, 4660)

DgAnnounceA2 == CreateSAPPacket(SdpA2, Ip10, 4660)

DgAnnounceB == CreateSAPPacket(SdpB, Ip11, 513)

\* header 0x20,0,0,0,192,168,1,10, one null byte, 'application/sdp\0', SdpA
DgScenario == <<32, 0, 0, 0, 192, 168, 1, 10>> \o <<0>> \o PayloadTypeTag \o Utf8Encode(SdpA)

\* header, one null byte, the 8 bytes 'app/sdp\0', SdpA
DgTag8 == <<32, 0, 0, 0, 192, 168, 1, 10>> \o <<0>> \o <<97, 112, 112, 47, 115, 100, 112, 0>> \o Utf8Encode(SdpA)

\* 7 bytes
DgShort == <<32, 0, 0, 0, 192, 168, 1>>

\* DgAnnounceA with version 2 in byte 0
DgVersion2 == <<64>> \o Tail(DgAnnounceA)

\* DgAnnounceA with an authentication length of 255 words
DgAuthOverrun == <<32, 255>> \o Tail(Tail(DgAnnounceA))

\* header, 'applicat', SdpA: no null byte anywhere after the header
DgNoTerminator == CreateSAPPacketShortTag(SdpA, Ip10, 0)

\* header and payload type, nothing after the terminator
DgNoPayload == <<32, 0, 0, 0, 192, 168, 1, 10>> \o PayloadTypeTag

\* header, payload type, then a text that is not SDP
DgNotSdp == <<32, 0, 0, 0, 192, 168, 1, 10>> \o PayloadTypeTag \o <<104, 101, 108, 108, 111>>

\* the SAP datagrams that arrive
Datagrams ==
    {DgAnnounceA, DgDeleteA, DgAnnounceA2, DgAnnounceB, DgScenario, DgTag8,
     DgShort, DgVersion2, DgAuthOverrun, DgNoTerminator, DgNoPayload, DgNotSdp}

\* rinfo.address of the datagrams that arrive: the announcer's own address,
\* and for DgAnnounceA also the address of a host relaying it
RemoteAddrs(msg) == IF msg = DgAnnounceB THEN {Ip11}
                    ELSE IF msg = DgAnnounceA THEN {Ip10, Ip11}
                    ELSE {Ip10}

\* handleSAPMessage up to the parseSDP call, for each datagram that arrives
DecodeSAPTable == [msg \in Datagrams |-> DecodeSAP(msg)]

\* the SDP texts handed to parseSDP
DatagramTexts == {DecodeSAPTable[msg].sdpData : msg \in Datagrams}

\* sdp.parse of each of them
SdpParseTable == [text \in DatagramTexts |-> SdpParse(text)]

(***************************************************************************)
(* Stream descriptors (AES67Discovery.parseSDP and its extract helpers)    *)
(***************************************************************************)

\* the sdp-transform package loaded when the module was loaded
sdpAvailable == TRUE

AES67_SAMPLE_RATE == 48000

\* a JavaScript string property is truthy when it is set and not empty
Truthy(opt) == opt # None /\ opt[1] # <<>>

MinOf(S) == CHOOSE x \in S : \A y \in S : x <= y

\* extractChannels: the first media.rtpmap entry with a truthy channels
ExtractChannels(media) ==
    IF media.rtpmap # None
    THEN LET a == media.rtpmap[1]
             idx == {i \in 1..Len(a) : Truthy(a[i].channels)}
         IN  IF idx = {} THEN 2
             ELSE OrDefault(ParseInt(a[MinOf(idx)].channels[1]), 2)
    ELSE 2

\* extractSampleRate: the first media.rtpmap entry with a truthy rate
ExtractSampleRate(media) ==
    IF media.rtpmap # None
    THEN LET a == media.rtpmap[1]
             idx == {i \in 1..Len(a) : Truthy(a[i].rate)}
         IN  IF idx = {} THEN AES67_SAMPLE_RATE
             ELSE OrDefault(ParseInt(a[MinOf(idx)].rate[1]), AES67_SAMPLE_RATE)
    ELSE AES67_SAMPLE_RATE

\* extractEncoding: the first media.rtpmap entry with a truthy name
ExtractEncoding(media) ==
    IF media.rtpmap # None
    THEN LET a == media.rtpmap[1]
             idx == {i \in 1..Len(a) : Truthy(a[i].name)}
         IN  IF idx = {} THEN TextL24 ELSE a[MinOf(idx)].name[1]
    ELSE TextL24

\* extractMediaClock
ExtractMediaClock(media) ==
    IF media.mediaclk # None THEN media.mediaclk[1]
    ELSE IF Truthy(media.tsRefClk) THEN media.tsRefClk[1]
    ELSE TextDefaultClock

\* (media.connection && media.connection.ip) ||
\* (session.connection && session.connection.ip), <<>> when both are falsy
ConnectionIP(session, media) ==
    IF media.connection # None /\ media.connection[1].ip # <<>>
    THEN media.connection[1].ip
    ELSE IF session.connection # None /\ session.connection[1].ip # <<>>
    THEN session.connection[1].ip
    ELSE <<>>

\* isMulticastIP
IsMulticastIP(ip) ==
    IF ip = <<>> THEN FALSE
    ELSE LET parts == Split(ip, 46)
             firstOctet == ParseInt(parts[1])
         IN  Len(parts) = 4 /\ ~firstOctet.nan
             /\ firstOctet.val >= 224 /\ firstOctet.val <= 239

\* messageType === 0 ? 'active' : 'deleted', with every message marked active
StatusAlwaysActive(messageType) == "active"

\* messageType === 0 ? 'active' : 'deleted'
StatusOf(messageType) == IF messageType = 0 THEN "active" ELSE "deleted"

\* the streamInfo object parseSDP builds for one media section (a session
\* id of 0 is parsed to the number 0, which is falsy)
StreamInfo(session, media, sdpString, sourceIP, actualIP, messageType, now, rnd) ==
    [id |-> IF session.origin # None /\ session.origin[1].sessionId \notin {<<>>, <<48>>}
            THEN session.origin[1].sessionId ELSE rnd,
     name |-> IF Truthy(session.name) THEN session.name[1] ELSE TextDefaultName,
     description |-> IF Truthy(session.description) THEN session.description[1] ELSE <<>>,
     sourceIP |-> IF actualIP # <<>> THEN actualIP
                  ELSE IF sourceIP # <<>> THEN sourceIP ELSE TextUnknown,
     destIP |-> IF ConnectionIP(session, media) # <<>>
                THEN ConnectionIP(session, media) ELSE TextUnknown,
     port |-> IF media.port # None THEN media.port[1] ELSE 0,
     channels |-> ExtractChannels(media),
     sampleRate |-> ExtractSampleRate(media),
     encoding |-> ExtractEncoding(media),
     ptime |-> IF media.ptime # None /\ media.ptime[1] # 0 THEN media.ptime[1] ELSE 1,
     mediaClk |-> ExtractMediaClock(media),
     isMulticast |-> IsMulticastIP(ConnectionIP(session, media)),
     sdp |-> sdpString,
     lastSeen |-> now,
     status |-> StatusOf(messageType)]

\* session.media.forEach of parseSDP: the streamInfo objects handed to
\* registerStream, in order
ParseSession(session, sdpString, sourceIP, actualIP, messageType, now, rnd) ==
    LET audio == SelectSeq(session.media,
                     LAMBDA m : m.type = Some(TextAudio) /\ m.protocol = Some(TextRtpAvp))
    IN  [i \in 1..Len(audio) |->
            StreamInfo(session, audio[i], sdpString, sourceIP, actualIP,
                       messageType, now, rnd)]

\* parseSDP: the streamInfo objects handed to registerStream, in order
ParseSDP(sdpString, sourceIP, actualIP, messageType, now, rnd) ==
    IF ~sdpAvailable \/ sdpString = <<>> THEN <<>>
    ELSE ParseSession(SdpParseTable[sdpString], sdpString, sourceIP, actualIP,
                      messageType, now, rnd)

(***************************************************************************)
(* JavaScript Map: entries in insertion order                              *)
(***************************************************************************)

MapHas(m, k) == \E i \in 1..Len(m) : m[i].key = k

MapGet(m, k) == m[CHOOSE i \in 1..Len(m) : m[i].key = k].value

MapKeys(m) == {m[i].key : i \in 1..Len(m)}

\* a set that always adds an entry, also for a key already present
MapSetAppend(m, k, v) == Append(m, [key |-> k, value |-> v])

\* Map.prototype.set: replaces the value in place, or adds the entry last
MapSet(m, k, v) ==
    IF MapHas(m, k)
    THEN [i \in 1..Len(m) |-> IF m[i].key = k THEN [key |-> k, value |-> v] ELSE m[i]]
    ELSE Append(m, [key |-> k, value |-> v])

\* a delete that removes nothing
MapDeleteNothing(m, k) == m

\* Map.prototype.delete
MapDelete(m, k) == SelectSeq(m, LAMBDA e : e.key # k)

(***************************************************************************)
(* The registry (AES67Discovery.registerStream, cleanupStaleStreams)       *)
(***************************************************************************)

\* cleanupStaleStreams: const timeout = 120000
StaleTimeoutMs == 120000

\* `${streamInfo.sourceIP}:${streamInfo.port}`
StreamKey(streamInfo) == streamInfo.sourceIP \o <<58>> \o Decimal(streamInfo.port)

\* updateNodeStatus
NodeStatusOf(streams, devices) ==
    IF Len(streams) = 0
    THEN [fill |-> "yellow", text |-> "searching", streams |-> 0, devices |-> 0]
    ELSE [fill |-> "green", text |-> "streams",
          streams |-> Len(streams), devices |-> Len(devices)]

\* the notification test of registerStream without the status test
NotifiesIgnoringStatus(isNew, streamInfo) == isNew

\* isNew && streamInfo.status === 'active'
Notifies(isNew, streamInfo) == isNew /\ streamInfo.status = "active"

\* an includes test that never finds the key (mutation of DeviceHasStream)
DeviceNeverHasStream(device, streamKey) == FALSE

\* device.streams.includes(streamKey)
DeviceHasStream(device, streamKey) ==
    \E i \in 1..Len(device.streams) : device.streams[i] = streamKey

\* registerStream on the registry state r = [streams, registry, devices,
\* emitted, nodeStatus]
RegisterStream(r, streamInfo) ==
    IF streamInfo.sourceIP = <<>> \/ streamInfo.port = 0 THEN r
    ELSE LET streamKey == StreamKey(streamInfo)
             isNew == ~MapHas(r.streams, streamKey)
             deviceKey == streamInfo.sourceIP
             devs1 == IF MapHas(r.devices, deviceKey) THEN r.devices
                      ELSE MapSet(r.devices, deviceKey,
                                  [ip |-> streamInfo.sourceIP,
                                   name |-> streamInfo.sourceIP,
                                   streams |-> <<>>])
             device == MapGet(devs1, deviceKey)
             devs2 == IF DeviceHasStream(device, streamKey)
                      THEN devs1
                      ELSE MapSet(devs1, deviceKey,
                                  [device EXCEPT !.streams = Append(@, streamKey)])
             streams2 == MapSet(r.streams, streamKey, streamInfo)
         IN  [streams |-> streams2,
              registry |-> MapSet(r.registry, streamKey, streamInfo),
              devices |-> devs2,
              emitted |-> IF Notifies(isNew, streamInfo)
                          THEN Append(r.emitted, [topic |-> "stream/discovered",
                                                  payload |-> streamInfo])
                          ELSE r.emitted,
              nodeStatus |-> NodeStatusOf(streams2, devs2)]

RECURSIVE RegisterAll(_, _, _)
\* session.media.forEach(... this.registerStream(streamInfo) ...)
RegisterAll(r, infos, i) ==
    IF i > Len(infos) THEN r ELSE RegisterAll(RegisterStream(r, infos[i]), infos, i + 1)

\* the staleness test with the boundary included
IsStaleInclusive(stream, now) ==
    stream.lastSeen # 0 /\ now - stream.lastSeen >= StaleTimeoutMs

\* stream && stream.lastSeen && (now - stream.lastSeen > timeout)
IsStale(stream, now) ==
    stream.lastSeen # 0 /\ now - stream.lastSeen > StaleTimeoutMs

RECURSIVE DeleteAll(_, _, _)
DeleteAll(m, entries, i) ==
    IF i > Len(entries) THEN m ELSE DeleteAll(MapDelete(m, entries[i].key), entries, i + 1)

\* cleanupStaleStreams on the registry state
CleanupStaleStreams(r, now) ==
    LET stale == SelectSeq(r.streams, LAMBDA e : IsStale(e.value, now))
        streams2 == DeleteAll(r.streams, stale, 1)
    IN  [streams |-> streams2,
         registry |-> DeleteAll(r.registry, stale, 1),
         devices |-> r.devices,
         emitted |-> r.emitted \o [i \in 1..Len(stale) |->
                        [topic |-> "stream/removed", payload |-> stale[i].value]],
         nodeStatus |-> NodeStatusOf(streams2, r.devices)]

(***************************************************************************)
(* Subscriptions (AES67Router): sockets and subscription ids                *)
(*                                                                         *)
(* A socket is [subscriptionId, stream, localPort, state, reported]; its    *)
(* state is "binding" from createSocket and bind() until the bind callback *)
(* or the 'error' event, then "listening" or "failed", and "closed" after  *)
(* close(); reported is the success value of the result the                *)
(* createSubscription call that created it returned.                       *)
(***************************************************************************)

\* 'auto'
TextAuto == <<97, 117, 116, 111>>

\* `${streamKey}_${localPort || 'auto'}`, localPort 0 when none is given
SubscriptionId(streamKey, localPort) ==
    streamKey \o <<95>> \o (IF localPort = 0 THEN TextAuto ELSE Decimal(localPort))

\* a subscription that keeps the descriptor without its format (mutation of
\* SubscribedStream)
SubscribedStreamNoFormat(stream) ==
    [name |-> stream.name, encoding |-> <<>>, channels |-> 0,
     sampleRate |-> 0, isMulticast |-> stream.isMulticast,
     destIP |-> stream.destIP]

\* the fields of a stream descriptor the router reads after subscribing
SubscribedStream(stream) ==
    [name |-> stream.name, encoding |-> stream.encoding, channels |-> stream.channels,
     sampleRate |-> stream.sampleRate, isMulticast |-> stream.isMulticast,
     destIP |-> stream.destIP]

\* a close() that closes every socket there is
CloseEverySocket(socks, i) ==
    [j \in 1..Len(socks) |-> [socks[j] EXCEPT !.state = "closed"]]

\* `const stream = globalStreamRegistry.get(streamKey); if (!stream)` of
\* createSubscription
StreamNotFound(registry, streamKey) == ~MapHas(registry, streamKey)

\* a bind callback that records no socket
RecordNoSocket(table, subscriptionId, i) == table

\* this.rtpSockets.set(subscriptionId, rtpSocket)
RecordSocket(table, subscriptionId, i) == MapSet(table, subscriptionId, i)

\* socket.close() on socket i
CloseSocket(socks, i) == [socks EXCEPT ![i].state = "closed"]

\* shutdown(): close() on every socket of this.rtpSockets
Shutdown(socks, table) ==
    [j \in 1..Len(socks) |->
        IF \E e \in 1..Len(table) : table[e].value = j
        THEN [socks[j] EXCEPT !.state = "closed"]
        ELSE socks[j]]

(***************************************************************************)
(* Discovery engine (AES67Discovery) on one router node                    *)
(***************************************************************************)

VARIABLES
    now,                    \* Date.now(), in ms
    running,                \* this.running
    sapSocket,              \* this.sapSocket: "null", "binding", "listening", "closed"
    announcementInterval,   \* this.announcementInterval: [active, next]
    cleanupInterval,        \* this.cleanupInterval: [active, next]
    streams,                \* this.streams
    devices,                \* this.devices
    globalStreamRegistry,   \* the module-level registry
    emitted,                \* the messages node.send() got from the last step
    nodeStatus,             \* the last node.status()
    sapSends,               \* SAP packets the last step handed to the socket
    delivered,              \* datagrams that reached parseSDP so far
    lastOp,                 \* the last step: [op, stage, messageType, msg, infos]
    codecIn,                \* SAP codec: [sdp, ip, hash] given to the announcer
    codecPacket,            \* SAP codec: the packet built, None before
    codecOut,               \* SAP codec: what the router decoded from it, None before
    sequenceNumber,         \* RTPPacketBuilder: this.sequenceNumber
    timestamp,              \* RTPPacketBuilder: this.timestamp
    rtpInitial,             \* the constructor's [sequenceNumber, timestamp]
    rtpPackets,             \* packets buildPacket returned so far
    rtpSamples,             \* sum of the incrementTimestamp arguments so far
    rtpErrors,              \* calls that ended in a RangeError so far
    rtpThrew,               \* the last call ended in a RangeError
    rtpLast,                \* the header of the last packet built, None before
    lastSequence,           \* RTPPacketParser: this.lastSequence, None for null
    packetsLost,            \* RTPPacketParser: this.packetsLost
    packetsReceived,        \* RTPPacketParser: this.packetsReceived
    parserSeqs,             \* sequence numbers parsePacket read since construction or reset
    parserIn,               \* the last buffer given to parsePacket: [buffer, built]
    parserOut,              \* what parsePacket returned for it, None for null
    subscriptions,          \* AES67Router: this.subscriptions
    rtpSockets,             \* AES67Router: this.rtpSockets, id -> index in sockets
    sockets,                \* the sockets createSubscription created, in order
    sapSocketsOpen,         \* SAP sockets created by createSAPSocket and not closed
    announceTimers,         \* announcement intervals set and not cleared
    cleanupTimers,          \* cleanup intervals set and not cleared
    startDeferred,          \* the node's setImmediate(() => discovery.start()) is pending
    nodeClosed,             \* the node's 'close' event was handled
    bufferFormat,           \* AudioBufferManager: [sampleRate, channels, bytesPerSample]
    buffers,                \* AudioBufferManager: this.buffers, each byte named by its
                            \* position in the stream of bytes appended
    bufferAppended,         \* bytes given to addAudioData so far
    bufferOp,               \* the last call: [op, size, result]
    bufferDelivered,        \* the bytes the successful reads returned, in order
    bufferLossy,            \* an append went above the cap, or clear() was called
    sapAnnouncer,           \* sender node: node.sapAnnouncer, None for null, else
                            \* [config, sapSocket, announcementInterval]
    senderLog,              \* sender node: what its handlers did to timers and sockets,
                            \* in order: [event, packet]
    senderClosed,           \* sender node: the 'close' event was handled
    receiverGroup,          \* receiver node: node.multicastGroup
    receiverSocket,         \* receiver node: node.rtpSocket: "null", "binding", "bound",
                            \* "unbound" (the bind failed) or "closed"
    receiverMemberships,    \* receiver node: the groups its socket has joined
    receiverStats,          \* receiver node: node.statsInterval: [active, runs]
    receiverClosed,         \* receiver node: the 'close' event was handled
    sapInput,               \* packet builders: None, else [sdp, ip, hash]
    sapBuilt                \* packet builders: None, else the packet last built:
                            \* [by, type, packet]

VARIABLES
    receiverFormat,         \* node.sampleRate, node.channels, node.encoding, node.bytesPerSample
    receiverOp              \* the receiver's last step and the audio message it sent

VARIABLE notified               \* the keys of the stream/discovered messages sent: since the
                                \* key was last absent from the registry, and ever

VARIABLE peer                   \* the AES67Discovery of a second router node

dvars == <<now, running, sapSocket, announcementInterval, cleanupInterval, streams,
           devices, globalStreamRegistry, emitted, nodeStatus, sapSends, delivered,
           lastOp>>

cvars == <<codecIn, codecPacket, codecOut>>

rvars == <<sequenceNumber, timestamp, rtpInitial, rtpPackets, rtpSamples, rtpErrors,
           rtpThrew, rtpLast>>

pvars == <<lastSequence, packetsLost, packetsReceived, parserSeqs, parserIn, parserOut>>

svars == <<subscriptions, rtpSockets, sockets>>

lvars == <<sapSocketsOpen, announceTimers, cleanupTimers, startDeferred, nodeClosed>>

bvars == <<bufferFormat, buffers, bufferAppended, bufferOp, bufferDelivered, bufferLossy>>

avars == <<sapAnnouncer, senderLog, senderClosed>>

evars == <<receiverGroup, receiverSocket, receiverMemberships, receiverStats, receiverClosed,
           receiverFormat, receiverOp>>

kvars == <<sapInput, sapBuilt>>

\* setInterval(..., 30000) of start()
AnnounceIntervalMs == 30000

\* setInterval(..., 60000) of start()
CleanupIntervalMs == 60000

\* Date.now() when the node is created, in ms
Epoch == 1000

\* the instants observed, in seconds after Epoch
GridSeconds == {0, 1, 121, 242}

\* the last instant observed, in seconds after Epoch
HorizonSeconds == 242

\* datagrams that reach parseSDP in one run
MaxDelivered == 2

MaxTime == Epoch + HorizonSeconds * 1000

TimeGrid == {Epoch + k * 1000 : k \in {g \in GridSeconds : g <= HorizonSeconds}}

NoTimer == [active |-> FALSE, next |-> 0]

\* a step that is no SAP datagram: no datagram, nothing handed to
\* registerStream (msg is set to the RTP datagram of an RTP step, to the
\* stream key of a subscribe and to the id of an unsubscribe)
Op(name) == [op |-> name, stage |-> "none", messageType |-> 0, msg |-> <<>>, infos |-> <<>>]

\* the record of the stream/discovered messages after a step that sent
\* these messages and left this registry
RecordEvents(record, events, registry) ==
    LET sent == {StreamKey(events[i].payload) :
                    i \in {n \in 1..Len(events) : events[n].topic = "stream/discovered"}}
    IN  [since |-> (record.since \cup sent) \cap MapKeys(registry),
         ever |-> record.ever \cup sent]

RegistryState ==
    [streams |-> streams, registry |-> globalStreamRegistry, devices |-> devices,
     emitted |-> <<>>, nodeStatus |-> nodeStatus]

DiscoveryInit ==
    /\ now = Epoch
    /\ running = FALSE
    /\ sapSocket = "null"
    /\ announcementInterval = NoTimer
    /\ cleanupInterval = NoTimer
    /\ streams = <<>>
    /\ devices = <<>>
    /\ globalStreamRegistry = <<>>
    /\ emitted = <<>>
    /\ nodeStatus = [fill |-> "none", text |-> "none", streams |-> 0, devices |-> 0]
    /\ sapSends = 0
    /\ delivered = 0
    /\ lastOp = Op("init")
    /\ notified = [since |-> {}, ever |-> {}]
    /\ subscriptions = <<>>
    /\ rtpSockets = <<>>
    /\ sockets = <<>>
    /\ sapSocketsOpen = 0
    /\ announceTimers = 0
    /\ cleanupTimers = 0

\* a node created with autoDiscover off, or whose deferred start has run
NodeIdle == startDeferred = FALSE /\ nodeClosed = FALSE

\* a node just created: with autoDiscover on, discovery.start() is deferred
\* by setImmediate
NodeCreated == startDeferred \in BOOLEAN /\ nodeClosed = FALSE

\* start() called while this.running is set returns at once, whatever
\* (mutation of StartIsNoOp)
StartNeverNoOp(isRunning) == FALSE

\* `if (this.running) return;` of start()
StartIsNoOp(isRunning) == isRunning

\* start() up to its await: a no-op while running, else the socket is
\* created (the socket this.sapSocket referred to before is not closed) and
\* bind() is called
StartDiscovery ==
    /\ now + CleanupIntervalMs <= MaxTime
    /\ lastOp' = Op("start")
    /\ emitted' = <<>>
    /\ sapSends' = 0
    /\ IF StartIsNoOp(running)
       THEN UNCHANGED <<running, sapSocket, nodeStatus, sapSocketsOpen>>
       ELSE /\ running' = TRUE
            /\ sapSocket' = "binding"
            /\ sapSocketsOpen' = sapSocketsOpen + 1
            /\ nodeStatus' = [fill |-> "yellow", text |-> "discovering",
                              streams |-> 0, devices |-> 0]
    /\ UNCHANGED <<cvars, rvars, pvars, svars, now, announcementInterval, cleanupInterval, streams, devices,
                   globalStreamRegistry, delivered, announceTimers, cleanupTimers, bvars, avars, evars, kvars, peer, notified>>

\* discovery.start() called by the 'start' command
Start == StartDiscovery /\ UNCHANGED <<startDeferred, nodeClosed>>

\* the callback of the node's setImmediate: discovery.start()
DeferredStart ==
    /\ startDeferred
    /\ startDeferred' = FALSE
    /\ StartDiscovery
    /\ UNCHANGED nodeClosed

\* the 'start' command reaches the input handler of a node that is not closed
InputStart == ~nodeClosed /\ Start

\* the socket's 'listening' event, then the rest of start(): both timers are
\* set (the handles held before are overwritten, not cleared) and the first
\* announcement is sent
SapListening ==
    /\ sapSocket = "binding"
    /\ now + CleanupIntervalMs <= MaxTime
    /\ sapSocket' = "listening"
    /\ announcementInterval' = [active |-> TRUE, next |-> now + AnnounceIntervalMs]
    /\ cleanupInterval' = [active |-> TRUE, next |-> now + CleanupIntervalMs]
    /\ announceTimers' = announceTimers + 1
    /\ cleanupTimers' = cleanupTimers + 1
    /\ sapSends' = IF sdpAvailable /\ running THEN 1 ELSE 0
    /\ emitted' = <<>>
    /\ lastOp' = Op("listening")
    /\ UNCHANGED <<cvars, rvars, pvars, svars, now, running, streams, devices, globalStreamRegistry, nodeStatus,
                   delivered, sapSocketsOpen, startDeferred, nodeClosed, bvars, avars, evars, kvars, peer, notified>>

\* the socket's 'error' event (a failed bind, or an error while listening):
\* the handler closes the socket and sets the status; start()'s promise
\* is neither resolved nor rejected
SapSocketError ==
    /\ sapSocket \in {"binding", "listening"}
    /\ sapSocket' = "closed"
    /\ sapSocketsOpen' = sapSocketsOpen - 1
    /\ nodeStatus' = [fill |-> "red", text |-> "SAP error", streams |-> 0, devices |-> 0]
    /\ emitted' = <<>>
    /\ sapSends' = 0
    /\ lastOp' = Op("socketError")
    /\ UNCHANGED <<cvars, rvars, pvars, svars, now, running, announcementInterval, cleanupInterval, streams, devices,
                   globalStreamRegistry, delivered, announceTimers, cleanupTimers, startDeferred, nodeClosed, bvars, avars, evars, kvars, peer, notified>>

\* clearInterval leaves the timer running (mutation of ClearInterval)
ClearIntervalKept(timer) == timer

\* clearInterval(timer)
ClearInterval(timer) == NoTimer

\* discovery.stop(), then router.shutdown()
StopAndShutdown ==
    /\ running' = FALSE
    /\ announcementInterval' = ClearInterval(announcementInterval)
    /\ cleanupInterval' = ClearInterval(cleanupInterval)
    /\ announceTimers' = IF announcementInterval.active THEN announceTimers - 1
                         ELSE announceTimers
    /\ cleanupTimers' = IF cleanupInterval.active THEN cleanupTimers - 1 ELSE cleanupTimers
    /\ sapSocket' = IF sapSocket = "null" THEN "null" ELSE "closed"
    /\ sapSocketsOpen' = IF sapSocket \in {"binding", "listening"} THEN sapSocketsOpen - 1
                         ELSE sapSocketsOpen
    /\ sockets' = Shutdown(sockets, rtpSockets)
    /\ rtpSockets' = <<>>
    /\ subscriptions' = <<>>
    /\ emitted' = <<>>
    /\ sapSends' = 0
    /\ lastOp' = Op("stop")
    /\ UNCHANGED <<cvars, rvars, pvars, now, streams, devices, globalStreamRegistry,
                   nodeStatus, delivered, bvars, avars, evars, kvars, peer, notified>>

\* the node's 'close' event: discovery.stop(), then router.shutdown()
Stop == StopAndShutdown /\ UNCHANGED <<startDeferred, nodeClosed>>

\* the node's 'close' event, once for a node
NodeClose ==
    /\ ~nodeClosed
    /\ nodeClosed' = TRUE
    /\ StopAndShutdown
    /\ UNCHANGED startDeferred

\* the streamInfo objects handleSAPMessage(msg, rinfo) hands to
\* registerStream
HandleSAPMessage(msg, address, rnd, t) ==
    LET d == DecodeSAPTable[msg]
    IN  IF d.deliver
        THEN ParseSDP(d.sdpData, d.sourceIP, address, d.messageType, t, rnd)
        ELSE <<>>

\* the socket's 'message' event
HandleSAP(msg, address, rnd) ==
    LET d == DecodeSAPTable[msg]
        infos == HandleSAPMessage(msg, address, rnd, now)
        r == RegisterAll(RegistryState, infos, 1)
    IN  /\ sapSocket = "listening"
        /\ d.deliver => delivered < MaxDelivered
        /\ streams' = r.streams
        /\ globalStreamRegistry' = r.registry
        /\ devices' = r.devices
        /\ emitted' = r.emitted
        /\ nodeStatus' = r.nodeStatus
        /\ delivered' = IF d.deliver THEN delivered + 1 ELSE delivered
        /\ sapSends' = 0
        /\ lastOp' = [op |-> "handleSAP", stage |-> d.stage, messageType |-> d.messageType,
                      msg |-> msg, infos |-> infos]
        /\ notified' = RecordEvents(notified, emitted', globalStreamRegistry')
        /\ UNCHANGED <<cvars, rvars, pvars, svars, now, running, sapSocket, announcementInterval, cleanupInterval, lvars, bvars, avars, evars, kvars, peer>>

\* the announcement timer fires: sendSAPAnnouncements()
AnnounceFire ==
    /\ announcementInterval.active
    /\ now >= announcementInterval.next
    /\ announcementInterval' = [active |-> TRUE, next |-> now + AnnounceIntervalMs]
    /\ sapSends' = IF sdpAvailable /\ sapSocket = "listening" /\ running THEN 1 ELSE 0
    /\ emitted' = <<>>
    /\ lastOp' = Op("announce")
    /\ UNCHANGED <<cvars, rvars, pvars, svars, now, running, sapSocket, cleanupInterval, streams, devices,
                   globalStreamRegistry, nodeStatus, delivered, lvars, bvars, avars, evars, kvars, peer, notified>>

\* the cleanup timer fires: cleanupStaleStreams()
CleanupFire ==
    /\ cleanupInterval.active
    /\ now >= cleanupInterval.next
    /\ cleanupInterval' = [active |-> TRUE, next |-> now + CleanupIntervalMs]
    /\ LET r == CleanupStaleStreams(RegistryState, now)
       IN  /\ streams' = r.streams
           /\ globalStreamRegistry' = r.registry
           /\ devices' = r.devices
           /\ emitted' = r.emitted
           /\ nodeStatus' = r.nodeStatus
    /\ sapSends' = 0
    /\ lastOp' = Op("cleanup")
    /\ notified' = RecordEvents(notified, emitted', globalStreamRegistry')
    /\ UNCHANGED <<cvars, rvars, pvars, svars, now, running, sapSocket, announcementInterval, delivered, lvars, bvars, avars, evars, kvars, peer>>

\* time passes to a later observed instant
Tick ==
    /\ \E t \in TimeGrid : t > now /\ now' = t
    /\ emitted' = <<>>
    /\ sapSends' = 0
    /\ lastOp' = Op("tick")
    /\ UNCHANGED <<cvars, rvars, pvars, svars, running, sapSocket, announcementInterval, cleanupInterval, streams,
                   devices, globalStreamRegistry, nodeStatus, delivered, lvars, bvars, avars, evars, kvars, peer, notified>>

DiscoveryNext ==
    \/ Start
    \/ SapListening
    \/ SapSocketError
    \/ Stop
    \/ \E msg \in Datagrams : \E address \in RemoteAddrs(msg), rnd \in RandomIds :
           HandleSAP(msg, address, rnd)
    \/ AnnounceFire
    \/ CleanupFire
    \/ Tick

(***************************************************************************)
(* Jitter buffer (AudioBufferManager)                                      *)
(***************************************************************************)

\* sampleRate * channels * bytesPerSample: maxBufferSize is a tenth of it
BytesPerSecond(format) == format.sampleRate * format.channels * format.bytesPerSample

\* this.buffers.reduce((sum, buf) => sum + buf.length, 0)
BufferedAmount(bufs) ==
    LET RECURSIVE Sum(_)
        Sum(i) == IF i > Len(bufs) THEN 0 ELSE Len(bufs[i]) + Sum(i + 1)
    IN  Sum(1)

\* totalSize > this.maxBufferSize, with maxBufferSize = bytes per second * 0.1
AboveCap(total, format) == total * 10 > BytesPerSecond(format)

\* the trimming loop runs down to the cap only (mutation of AboveTrimLevel)
AboveTrimLevelAtCap(total, format) == total * 10 > BytesPerSecond(format)

\* total > this.maxBufferSize * 0.8
AboveTrimLevel(total, format) == total * 100 > BytesPerSecond(format) * 8

RECURSIVE TrimOldest(_, _)
\* while (buffers.length > 0 && total > maxBufferSize * 0.8) buffers.shift()
TrimOldest(bufs, format) ==
    IF Len(bufs) > 0 /\ AboveTrimLevel(BufferedAmount(bufs), format)
    THEN TrimOldest(Tail(bufs), format)
    ELSE bufs

\* a push that puts the chunk at the head (mutation of Push)
PushAtHead(bufs, data) == <<data>> \o bufs

\* this.buffers.push(data)
Push(bufs, data) == Append(bufs, data)

\* addAudioData(data): this.buffers afterwards
AddAudioData(bufs, data, format) ==
    LET pushed == Push(bufs, data)
    IN  IF AboveCap(BufferedAmount(pushed), format)
        THEN TrimOldest(pushed, format)
        ELSE pushed

\* buffer.slice(needed) keeps the whole chunk (mutation of Remainder)
RemainderWhole(buffer, needed) == buffer

\* buffer.slice(needed)
Remainder(buffer, needed) == Slice(buffer, needed, Len(buffer))

RECURSIVE CopyOut(_, _, _)
\* the copying loop of getAudioData: [buffers, result] once offset has
\* reached requestedSize or the queue is empty
CopyOut(bufs, result, requestedSize) ==
    IF Len(result) < requestedSize /\ Len(bufs) > 0
    THEN LET buffer == bufs[1]
             needed == requestedSize - Len(result)
         IN  IF Len(buffer) <= needed
             THEN CopyOut(Tail(bufs), result \o buffer, requestedSize)
             ELSE CopyOut(<<Remainder(buffer, needed)>> \o Tail(bufs),
                          result \o Slice(buffer, 0, needed), requestedSize)
    ELSE [buffers |-> bufs, result |-> Some(result)]

\* getAudioData(requestedSize): [buffers, result], result None for null
GetAudioData(bufs, requestedSize) ==
    IF Len(bufs) = 0 THEN [buffers |-> bufs, result |-> None]
    ELSE IF BufferedAmount(bufs) < requestedSize THEN [buffers |-> bufs, result |-> None]
    ELSE CopyOut(bufs, <<>>, requestedSize)

\* the formats of the receivers observed: 10 and 7.5 bytes in 100 ms
BufferFormats ==
    {[sampleRate |-> 50, channels |-> 1, bytesPerSample |-> 2],
     [sampleRate |-> 25, channels |-> 1, bytesPerSample |-> 3]}

\* the payload sizes of the packets observed (the receiver appends no empty
\* payload)
AppendSizes == {1, 2, 5, 11}

\* the sizes asked of getAudioData (the receiver asks for 10 ms, never for
\* 0 bytes)
ReadSizes == {1, 3, 10}

\* bytes appended in one run
MaxAppended == 14

\* no audio buffer in use
BufferIdle ==
    /\ bufferFormat = [sampleRate |-> 48000, channels |-> 2, bytesPerSample |-> 3]
    /\ buffers = <<>>
    /\ bufferAppended = 0
    /\ bufferOp = [op |-> "init", size |-> 0, result |-> None]
    /\ bufferDelivered = <<>>
    /\ bufferLossy = FALSE

\* new AudioBufferManager(sampleRate, channels, bytesPerSample)
BufferInit ==
    /\ bufferFormat \in BufferFormats
    /\ buffers = <<>>
    /\ bufferAppended = 0
    /\ bufferOp = [op |-> "init", size |-> 0, result |-> None]
    /\ bufferDelivered = <<>>
    /\ bufferLossy = FALSE

\* addAudioData(data) with the next size bytes of the stream
BufferAppend(size) ==
    /\ bufferAppended + size <= MaxAppended
    /\ buffers' = AddAudioData(buffers, [i \in 1..size |-> bufferAppended + i - 1],
                               bufferFormat)
    /\ bufferAppended' = bufferAppended + size
    /\ bufferOp' = [op |-> "append", size |-> size, result |-> None]
    /\ bufferLossy' = (bufferLossy \/ AboveCap(BufferedAmount(buffers) + size, bufferFormat))
    /\ UNCHANGED <<bufferFormat, bufferDelivered, dvars, cvars, rvars, pvars, svars, lvars, avars, evars, kvars, peer, notified>>

\* getAudioData(requestedSize)
BufferRead(requestedSize) ==
    LET r == GetAudioData(buffers, requestedSize)
    IN  /\ buffers' = r.buffers
        /\ bufferOp' = [op |-> "read", size |-> requestedSize, result |-> r.result]
        /\ bufferDelivered' = IF r.result = None THEN bufferDelivered
                              ELSE bufferDelivered \o r.result[1]
        /\ UNCHANGED <<bufferFormat, bufferAppended, bufferLossy, dvars, cvars, rvars, pvars, svars, lvars, avars, evars, kvars, peer, notified>>

\* clear()
BufferClear ==
    /\ buffers' = <<>>
    /\ bufferOp' = [op |-> "clear", size |-> 0, result |-> None]
    /\ bufferLossy' = TRUE
    /\ UNCHANGED <<bufferFormat, bufferAppended, bufferDelivered, dvars, cvars, rvars, pvars, svars, lvars, avars, evars, kvars, peer, notified>>

BufferNext ==
    \/ \E size \in AppendSizes : BufferAppend(size)
    \/ \E requestedSize \in ReadSizes : BufferRead(requestedSize)
    \/ BufferClear

\* the discovery engine started and stopped in any order, with no datagram
EngineNext ==
    \/ Start
    \/ SapListening
    \/ SapSocketError
    \/ Stop
    \/ AnnounceFire
    \/ CleanupFire
    \/ Tick

\* the router node from its creation to after its 'close' event: the
\* deferred start, 'start' commands while the node is open, one close
NodeNext ==
    \/ DeferredStart
    \/ InputStart
    \/ SapListening
    \/ SapSocketError
    \/ NodeClose
    \/ AnnounceFire
    \/ CleanupFire
    \/ Tick

(***************************************************************************)
(* SAP codec: a packet of the sender's SAPAnnouncer decoded by the router   *)
(***************************************************************************)

\* characters after the first two lines' heads: 's', 'd', 'p', U+00E9, LF
TailAlphabet == {115, 100, 112, 233, 10}

\* the longest tail
MaxTail == 3

Tails(n) == UNION {[1..k -> TailAlphabet] : k \in 0..n}

\* CR LF, LF
LineEnds == {<<13, 10>>, <<10>>}

\* the type letters of the second line: 'o', 's'
SecondLineTypes == {111, 115}

\* SDP texts as createSDP lays them out: 'v=0', a line end, the next line's
\* type letter and '=', then the rest
SdpTexts ==
    {TextV0 \o eol \o <<ty, 61>> \o tail :
        eol \in LineEnds, ty \in SecondLineTypes, tail \in Tails(MaxTail)}

\* '239.69.1.1'
IpMulticast == <<50, 51, 57, 46, 54, 57, 46, 49, 46, 49>>

\* '10.0.0.255'
IpEdge == <<49, 48, 46, 48, 46, 48, 46, 50, 53, 53>>

\* this.config.sourceIP
SourceIPs == {Ip10, IpMulticast, IpEdge}

\* this.msgIdHash
MsgIdHashes == {0, 65535}

CodecIdle ==
    /\ codecIn = [sdp |-> TextV0, ip |-> Ip10, hash |-> 0]
    /\ codecPacket = None
    /\ codecOut = None

CodecInit ==
    /\ \E sdp \in SdpTexts, ip \in SourceIPs, hash \in MsgIdHashes :
           codecIn = [sdp |-> sdp, ip |-> ip, hash |-> hash]
    /\ codecPacket = None
    /\ codecOut = None

\* sendAnnouncement: createSAPPacket(createSDP())
SendAnnouncement ==
    /\ codecPacket = None
    /\ codecPacket' = Some(CreateSAPPacket(codecIn.sdp, codecIn.ip, codecIn.hash))
    /\ UNCHANGED <<codecIn, codecOut, dvars, rvars, pvars, svars, lvars, bvars, avars, evars, kvars, peer, notified>>

\* sendDeletion
SendDeletion ==
    /\ codecPacket = None
    /\ codecPacket' = Some(DeletionPacket(codecIn.sdp, codecIn.ip, codecIn.hash))
    /\ UNCHANGED <<codecIn, codecOut, dvars, rvars, pvars, svars, lvars, bvars, avars, evars, kvars, peer, notified>>

\* the router receives the packet: handleSAPMessage up to the parseSDP call
ReceivePacket ==
    /\ codecPacket # None
    /\ codecOut = None
    /\ codecOut' = Some(DecodeSAP(codecPacket[1]))
    /\ UNCHANGED <<codecIn, codecPacket, dvars, rvars, pvars, svars, lvars, bvars, avars, evars, kvars, peer, notified>>

CodecNext == SendAnnouncement \/ SendDeletion \/ ReceivePacket

(***************************************************************************)
(* RTP packet builder (RTPPacketBuilder and sendAudioData of the sender)    *)
(*                                                                         *)
(* A number of magnitude below 2^32 is held as two 16-bit halves: its      *)
(* value is hi * 2^16 + lo, less 2^32 when neg.                            *)
(***************************************************************************)

AES67_RTP_PAYLOAD_TYPE == 96

Number32(hi, lo) == [hi |-> hi, lo |-> lo, neg |-> FALSE]

\* AES67_SSRC_BASE + Math.floor(Math.random() * 0xFFFF), the base 0x67670000
Ssrc == Number32(26471, 4660)

\* (x + n) mod 2^32 as an unsigned number, for 0 <= n < 2^16
AddMod32(x, n) ==
    LET lo == x.lo + n
    IN  Number32((x.hi + lo \div 65536) % 65536, lo % 65536)

\* (x + n) & 0xFFFFFFFF: the operands of & are taken as signed 32-bit
\* integers and so is the result
AddAndMask32(x, n) ==
    LET u == AddMod32(x, n)
    IN  [hi |-> u.hi, lo |-> u.lo, neg |-> u.hi >= 32768]

\* the increment without the wrap
NextSequenceNoWrap(seq) == seq + 1

\* (this.sequenceNumber + 1) & 0xFFFF
NextSequenceNumber(seq) == (seq + 1) % 65536

\* writeUInt32BE(value, offset) accepts 0 <= value <= 2^32 - 1 and throws a
\* RangeError for any other value
FitsUInt32(x) == ~x.neg

\* the header with the sequence number written low byte first
RtpHeaderSeqLowFirst(payloadType, marker, seq, ts, ssrc) ==
    <<128, (IF marker THEN 128 ELSE 0) + (payloadType % 128),
      seq % 256, seq \div 256,
      ts.hi \div 256, ts.hi % 256, ts.lo \div 256, ts.lo % 256,
      ssrc.hi \div 256, ssrc.hi % 256, ssrc.lo \div 256, ssrc.lo % 256>>

\* the 12 header bytes buildPacket writes
RtpHeader(payloadType, marker, seq, ts, ssrc) ==
    <<128, (IF marker THEN 128 ELSE 0) + (payloadType % 128),
      seq \div 256, seq % 256,
      ts.hi \div 256, ts.hi % 256, ts.lo \div 256, ts.lo % 256,
      ssrc.hi \div 256, ssrc.hi % 256, ssrc.lo \div 256, ssrc.lo % 256>>

\* Math.floor(Math.random() * 65535)
InitialSequenceNumbers == {0, 65530, 65534}

\* Math.floor(Math.random() * 0xFFFFFFFF): 0, 0x7FFFFFFF, 0x80000000, 0xFFFFFFFE
InitialTimestamps ==
    {Number32(0, 0), Number32(32767, 65535), Number32(32768, 0), Number32(65535, 65534)}

\* samplesPerChannel of an audio buffer
SampleCounts == {0, 48}

\* packets built in one run
MaxPackets == 8

\* the largest sum of sample counts in one run
MaxSamples == 96

\* calls that throw in one run
MaxErrors == 2

RtpIdle ==
    /\ sequenceNumber = 0
    /\ timestamp = Number32(0, 0)
    /\ rtpInitial = [sequenceNumber |-> 0, timestamp |-> Number32(0, 0)]
    /\ rtpPackets = 0
    /\ rtpSamples = 0
    /\ rtpErrors = 0
    /\ rtpThrew = FALSE
    /\ rtpLast = None

\* new RTPPacketBuilder(AES67_RTP_PAYLOAD_TYPE, ssrc, node.sampleRate)
RtpInit ==
    /\ sequenceNumber \in InitialSequenceNumbers
    /\ timestamp \in InitialTimestamps
    /\ rtpInitial = [sequenceNumber |-> sequenceNumber, timestamp |-> timestamp]
    /\ rtpPackets = 0
    /\ rtpSamples = 0
    /\ rtpErrors = 0
    /\ rtpThrew = FALSE
    /\ rtpLast = None

\* buildPacket(audioData): the header is written, then the sequence number
\* advances; a timestamp writeUInt32BE rejects throws before that
BuildPacket ==
    IF FitsUInt32(timestamp)
    THEN /\ rtpPackets < MaxPackets
         /\ rtpLast' = Some(RtpHeader(AES67_RTP_PAYLOAD_TYPE, FALSE, sequenceNumber,
                                      timestamp, Ssrc))
         /\ sequenceNumber' = NextSequenceNumber(sequenceNumber)
         /\ rtpPackets' = rtpPackets + 1
         /\ rtpThrew' = FALSE
         /\ UNCHANGED <<timestamp, rtpInitial, rtpSamples, rtpErrors, dvars, cvars, pvars, svars, lvars, bvars, avars, evars, kvars, peer, notified>>
    ELSE /\ rtpErrors < MaxErrors
         /\ rtpErrors' = rtpErrors + 1
         /\ rtpThrew' = TRUE
         /\ UNCHANGED <<sequenceNumber, timestamp, rtpInitial, rtpPackets, rtpSamples,
                        rtpLast, dvars, cvars, pvars, svars, lvars, bvars, avars, evars, kvars, peer, notified>>

\* incrementTimestamp(samples)
IncrementTimestamp(samples) ==
    /\ rtpSamples + samples <= MaxSamples
    /\ timestamp' = AddAndMask32(timestamp, samples)
    /\ rtpSamples' = rtpSamples + samples
    /\ rtpThrew' = FALSE
    /\ UNCHANGED <<sequenceNumber, rtpInitial, rtpPackets, rtpErrors, rtpLast, dvars, cvars, pvars, svars, lvars, bvars, avars, evars, kvars, peer, notified>>

\* sendAudioData(node, audioBuffer, send): buildPacket, the send, then
\* incrementTimestamp(samplesPerChannel); an exception of buildPacket is
\* caught and reported with node.error
SendAudioData(samplesPerChannel) ==
    IF FitsUInt32(timestamp)
    THEN /\ rtpPackets < MaxPackets
         /\ rtpSamples + samplesPerChannel <= MaxSamples
         /\ rtpLast' = Some(RtpHeader(AES67_RTP_PAYLOAD_TYPE, FALSE, sequenceNumber,
                                      timestamp, Ssrc))
         /\ sequenceNumber' = NextSequenceNumber(sequenceNumber)
         /\ rtpPackets' = rtpPackets + 1
         /\ timestamp' = AddAndMask32(timestamp, samplesPerChannel)
         /\ rtpSamples' = rtpSamples + samplesPerChannel
         /\ rtpThrew' = FALSE
         /\ UNCHANGED <<rtpInitial, rtpErrors, dvars, cvars, pvars, svars, lvars, bvars, avars, evars, kvars, peer, notified>>
    ELSE /\ rtpErrors < MaxErrors
         /\ rtpErrors' = rtpErrors + 1
         /\ rtpThrew' = TRUE
         /\ UNCHANGED <<sequenceNumber, timestamp, rtpInitial, rtpPackets, rtpSamples,
                        rtpLast, dvars, cvars, pvars, svars, lvars, bvars, avars, evars, kvars, peer, notified>>

RtpNext ==
    \/ BuildPacket
    \/ \E samples \in SampleCounts : IncrementTimestamp(samples)
    \/ \E samplesPerChannel \in SampleCounts : SendAudioData(samplesPerChannel)

(***************************************************************************)
(* RTP packet parser (RTPPacketParser of the receiver)                      *)
(***************************************************************************)

\* the packet buildPacket(audioData, marker) returns for a builder with the
\* fields of session
BuiltPacket(session) ==
    RtpHeader(session.payloadType, session.marker, session.sequenceNumber,
              session.timestamp, session.ssrc) \o session.audioData

\* buffer.readUInt32BE(i)
ReadUInt32BE(b, i) == Number32(ReadUInt16BE(b, i), ReadUInt16BE(b, i + 2))

\* the header object read from the first 12 bytes
ParseHeader(buffer) ==
    [version |-> (At(buffer, 0) \div 64) % 4,
     padding |-> (At(buffer, 0) \div 32) % 2,
     extension |-> (At(buffer, 0) \div 16) % 2,
     csrcCount |-> At(buffer, 0) % 16,
     marker |-> (At(buffer, 1) \div 128) % 2,
     payloadType |-> At(buffer, 1) % 128,
     sequenceNumber |-> ReadUInt16BE(buffer, 2),
     timestamp |-> ReadUInt32BE(buffer, 4),
     ssrc |-> ReadUInt32BE(buffer, 8)]

\* headerLength: 12 + csrcCount * 4, extended by the extension header when
\* the extension bit is set and its 4 bytes are inside the buffer
HeaderLength(buffer) ==
    LET header == ParseHeader(buffer)
        base == 12 + header.csrcCount * 4
    IN  IF header.extension = 1 /\ Len(buffer) >= base + 4
        THEN base + 4 + ReadUInt16BE(buffer, base + 2) * 4
        ELSE base

\* the lost count taken as the plain difference to the expected number
LostBetweenNoWrap(last, seq) == seq - (last + 1)

\* what parsePacket adds to packetsLost for sequence number seq after last
LostBetween(last, seq) ==
    LET expected == (last + 1) % 65536
    IN  IF seq # expected THEN (seq - expected + 65536) % 65536 ELSE 0

\* payload.slice(0, -paddingLength), paddingLength the last payload byte:
\* slice(0, -0) is slice(0, 0)
StripPadding(payload) ==
    LET paddingLength == payload[Len(payload)]
    IN  IF paddingLength = 0 THEN <<>>
        ELSE Slice(payload, 0, Len(payload) - paddingLength)

\* parsePacket(buffer) on the parser p = [lastSequence, packetsLost,
\* packetsReceived]: the parser afterwards and the value returned
ParsePacket(p, buffer) ==
    IF Len(buffer) < 12 THEN [parser |-> p, result |-> None]
    ELSE LET header == ParseHeader(buffer)
             lost == IF p.lastSequence # None
                     THEN LostBetween(p.lastSequence[1], header.sequenceNumber)
                     ELSE 0
             payload == Slice(buffer, HeaderLength(buffer), Len(buffer))
         IN  [parser |-> [lastSequence |-> Some(header.sequenceNumber),
                          packetsLost |-> p.packetsLost + lost,
                          packetsReceived |-> p.packetsReceived + 1],
              result |-> Some([header |-> header,
                               payload |-> IF header.padding = 1 /\ Len(payload) > 0
                                           THEN StripPadding(payload)
                                           ELSE payload])]

\* getStats(): lossRate is the quotient num / den
GetStats ==
    [packetsReceived |-> packetsReceived,
     packetsLost |-> packetsLost,
     lossRate |-> IF packetsReceived > 0
                  THEN [num |-> packetsLost, den |-> packetsReceived + packetsLost]
                  ELSE [num |-> 0, den |-> 1]]

\* sequence numbers of the builders whose packets arrive
ParserSequenceNumbers == {1, 2, 4, 5, 65535}

\* the builders whose packets arrive: payload type, marker argument, sequence
\* number, timestamp, ssrc, and the audio data given to buildPacket
BuilderSessions ==
    [payloadType : {AES67_RTP_PAYLOAD_TYPE, 224},
     marker : BOOLEAN,
     sequenceNumber : ParserSequenceNumbers,
     timestamp : {Number32(32768, 0), Number32(65535, 65534)},
     ssrc : {Ssrc},
     audioData : {<<>>, <<255, 0, 3>>}]

\* other datagrams that arrive on an RTP socket, all with sequence number 3:
\* 11 bytes; 12 bytes with a CSRC count of 1; 16 bytes with the extension
\* bit and an extension of 1 word; 14 bytes with the extension bit; a CSRC
\* count of 1 with its 4 bytes and 2 payload bytes; the padding bit with a
\* payload of 3 bytes ending in 2, in 0, in 1, in 3 (its length) and in 7
\* (more than its length)
RtpDatagrams ==
    {<<128, 96, 0, 3, 0, 0, 0, 0, 0, 0, 0>>,
     <<129, 96, 0, 3, 0, 0, 0, 0, 0, 0, 0, 1>>,
     <<144, 96, 0, 3, 0, 0, 0, 0, 0, 0, 0, 1, 0, 0, 0, 1>>,
     <<144, 96, 0, 3, 0, 0, 0, 0, 0, 0, 0, 1, 9, 9>>,
     <<129, 96, 0, 3, 0, 0, 0, 0, 0, 0, 0, 1, 0, 0, 0, 7, 9, 9>>,
     <<160, 96, 0, 3, 0, 0, 0, 0, 0, 0, 0, 1, 9, 2, 2>>,
     <<160, 96, 0, 3, 0, 0, 0, 0, 0, 0, 0, 1, 9, 9, 0>>,
     <<160, 96, 0, 3, 0, 0, 0, 0, 0, 0, 0, 1, 9, 9, 1>>,
     <<160, 96, 0, 3, 0, 0, 0, 0, 0, 0, 0, 1, 9, 3, 3>>,
     <<160, 96, 0, 3, 0, 0, 0, 0, 0, 0, 0, 1, 9, 9, 7>>}

\* packets parsed between two resets
MaxParsed == 4

ParserIdle ==
    /\ lastSequence = None
    /\ packetsLost = 0
    /\ packetsReceived = 0
    /\ parserSeqs = <<>>
    /\ parserIn = [buffer |-> <<>>, built |-> None]
    /\ parserOut = None

\* node.rtpParser.parsePacket(buffer) for a datagram that arrived; built is
\* the builder that made it, None for any other datagram
ReceiverParse(buffer, built) ==
    LET r == ParsePacket([lastSequence |-> lastSequence, packetsLost |-> packetsLost,
                          packetsReceived |-> packetsReceived], buffer)
    IN  /\ Len(buffer) >= 12 => Len(parserSeqs) < MaxParsed
        /\ lastSequence' = r.parser.lastSequence
        /\ packetsLost' = r.parser.packetsLost
        /\ packetsReceived' = r.parser.packetsReceived
        /\ parserSeqs' = IF r.result = None THEN parserSeqs
                         ELSE Append(parserSeqs, r.result[1].header.sequenceNumber)
        /\ parserIn' = [buffer |-> buffer, built |-> built]
        /\ parserOut' = r.result
        /\ UNCHANGED <<dvars, cvars, rvars, svars, lvars, bvars, avars, evars, kvars, peer, notified>>

\* reset()
ParserReset ==
    /\ lastSequence' = None
    /\ packetsLost' = 0
    /\ packetsReceived' = 0
    /\ parserSeqs' = <<>>
    /\ UNCHANGED <<parserIn, parserOut, dvars, cvars, rvars, svars, lvars, bvars, avars, evars, kvars, peer, notified>>

ParserNext ==
    \/ \E session \in BuilderSessions : ReceiverParse(BuiltPacket(session), Some(session))
    \/ \E buffer \in RtpDatagrams : ReceiverParse(buffer, None)
    \/ ParserReset

(***************************************************************************)
(* Subscription manager (AES67Router) on the router node                    *)
(***************************************************************************)

\* sockets created in one run
MaxSockets == 2

\* RTP datagrams counted by one subscription
MaxRtpReceived == 1

\* '192.168.1.10:5004', the key of the stream DgAnnounceA announces
StreamKeyA == Ip10 \o <<58>> \o Decimal(5004)

\* stream keys of subscribe commands: StreamKeyA and '192.168.1.11:5004'
SubscribeKeys == {StreamKeyA, Ip11 \o <<58>> \o Decimal(5004)}

\* payload.localPort of subscribe commands, 0 when none is given
SubscribePorts == {0, 5004}

\* a result that never names an error
ResultNoError(command, success, error, id) ==
    [command |-> command, success |-> success, error |-> "none", id |-> id]

\* the value a command returns, with the command and the subscription id
\* it is about
Result(command, success, error, id) ==
    [command |-> command, success |-> success, error |-> error, id |-> id]

\* the 'subscribe' input: createSubscription(streamKey, localPort) up to its
\* return, and the response sent on the first output
CreateSubscription(streamKey, localPort) ==
    LET subscriptionId == SubscriptionId(streamKey, localPort)
        result == IF StreamNotFound(globalStreamRegistry, streamKey)
                  THEN Result("subscribe", FALSE, "Stream not found", subscriptionId)
                  ELSE IF MapHas(subscriptions, subscriptionId)
                  THEN Result("subscribe", FALSE, "Subscription already exists",
                              subscriptionId)
                  ELSE Result("subscribe", TRUE, "none", subscriptionId)
    IN  /\ result.success => Len(sockets) < MaxSockets
        /\ sockets' = IF result.success
                      THEN Append(sockets,
                               [subscriptionId |-> subscriptionId,
                                stream |-> SubscribedStream(MapGet(globalStreamRegistry, streamKey)),
                                localPort |-> localPort,
                                state |-> "binding",
                                reported |-> result.success])
                      ELSE sockets
        /\ emitted' = <<[topic |-> IF result.success THEN "subscribed"
                                   ELSE "subscription_error",
                         payload |-> result]>>
        /\ sapSends' = 0
        /\ lastOp' = [Op("subscribe") EXCEPT !.msg = streamKey]
        /\ UNCHANGED <<cvars, rvars, pvars, subscriptions, rtpSockets, now, running,
                       sapSocket, announcementInterval, cleanupInterval, streams, devices,
                       globalStreamRegistry, nodeStatus, delivered, lvars, bvars, avars, evars, kvars, peer, notified>>

\* the bind callback of socket i: the subscription and the socket are
\* recorded (a port of 0 is replaced by the port the system assigned; the
\* creation date, which nothing reads, is left out)
BindComplete(i) ==
    LET socket == sockets[i]
        subscription == [id |-> socket.subscriptionId,
                         stream |-> socket.stream,
                         localPort |-> IF socket.localPort = 0 THEN 49152 + i
                                       ELSE socket.localPort,
                         packetsReceived |-> 0,
                         bytesReceived |-> 0,
                         status |-> "active"]
    IN  /\ socket.state = "binding"
        /\ sockets' = [sockets EXCEPT ![i].state = "listening"]
        /\ subscriptions' = MapSet(subscriptions, socket.subscriptionId, subscription)
        /\ rtpSockets' = RecordSocket(rtpSockets, socket.subscriptionId, i)
        /\ emitted' = <<>>
        /\ sapSends' = 0
        /\ lastOp' = Op("bound")
        /\ UNCHANGED <<cvars, rvars, pvars, now, running, sapSocket,
                       announcementInterval, cleanupInterval, streams, devices,
                       globalStreamRegistry, nodeStatus, delivered, lvars, bvars, avars, evars, kvars, peer, notified>>

\* the bind of socket i fails: the 'error' handler logs a warning
BindError(i) ==
    /\ sockets[i].state = "binding"
    /\ sockets' = [sockets EXCEPT ![i].state = "failed"]
    /\ emitted' = <<>>
    /\ sapSends' = 0
    /\ lastOp' = Op("bindError")
    /\ UNCHANGED <<cvars, rvars, pvars, subscriptions, rtpSockets, now, running,
                   sapSocket, announcementInterval, cleanupInterval, streams, devices,
                   globalStreamRegistry, nodeStatus, delivered, lvars, bvars, avars, evars, kvars, peer, notified>>

\* the 'message' event of socket i: handleRTPPacket(msg, rinfo, subscriptionId)
HandleRTPPacket(i, msg) ==
    LET subscriptionId == sockets[i].subscriptionId
        counted == Len(msg) >= 12 /\ MapHas(subscriptions, subscriptionId)
        subscription == MapGet(subscriptions, subscriptionId)
        rtpHeader == ParseHeader(msg)
        sent == /\ counted
                /\ 12 + rtpHeader.csrcCount * 4 <= Len(msg)
                /\ HeaderLength(msg) <= Len(msg)
    IN  /\ sockets[i].state = "listening"
        /\ counted => subscription.packetsReceived < MaxRtpReceived
        /\ subscriptions' =
               IF counted
               THEN MapSet(subscriptions, subscriptionId,
                        [subscription EXCEPT !.packetsReceived = @ + 1,
                                             !.bytesReceived = @ + Len(msg)])
               ELSE subscriptions
        /\ emitted' =
               IF sent
               THEN <<[topic |-> "audio/data",
                       payload |-> [subscriptionId |-> subscriptionId,
                                    streamName |-> subscription.stream.name,
                                    rtp |-> rtpHeader,
                                    audio |-> Slice(msg, HeaderLength(msg), Len(msg)),
                                    format |-> [encoding |-> subscription.stream.encoding,
                                                channels |-> subscription.stream.channels,
                                                sampleRate |-> subscription.stream.sampleRate]]]>>
               ELSE <<>>
        /\ sapSends' = 0
        /\ lastOp' = [Op("rtp") EXCEPT !.msg = msg]
        /\ UNCHANGED <<cvars, rvars, pvars, rtpSockets, sockets, now, running,
                       sapSocket, announcementInterval, cleanupInterval, streams, devices,
                       globalStreamRegistry, nodeStatus, delivered, lvars, bvars, avars, evars, kvars, peer, notified>>

\* the 'unsubscribe' input: removeSubscription(subscriptionId), and the
\* response sent on the first output
RemoveSubscription(subscriptionId) ==
    LET found == MapHas(subscriptions, subscriptionId)
        result == IF found THEN Result("unsubscribe", TRUE, "none", subscriptionId)
                  ELSE Result("unsubscribe", FALSE, "Subscription not found",
                              subscriptionId)
    IN  /\ sockets' = IF found /\ MapHas(rtpSockets, subscriptionId)
                      THEN CloseSocket(sockets, MapGet(rtpSockets, subscriptionId))
                      ELSE sockets
        /\ rtpSockets' = IF found THEN MapDelete(rtpSockets, subscriptionId) ELSE rtpSockets
        /\ subscriptions' = IF found THEN MapDelete(subscriptions, subscriptionId)
                            ELSE subscriptions
        /\ emitted' = <<[topic |-> "unsubscribed", payload |-> result]>>
        /\ sapSends' = 0
        /\ lastOp' = [Op("unsubscribe") EXCEPT !.msg = subscriptionId]
        /\ UNCHANGED <<cvars, rvars, pvars, now, running, sapSocket, announcementInterval,
                       cleanupInterval, streams, devices, globalStreamRegistry, nodeStatus,
                       delivered, lvars, bvars, avars, evars, kvars, peer, notified>>

\* RTP datagrams that arrive on the sockets of subscriptions: the one of 11
\* bytes, the two whose header length exceeds them, and the one of 14 bytes
RouterRtpDatagrams == {msg \in RtpDatagrams : Len(msg) \in {11, 12, 14, 16}}

\* the descriptor parseSDP returns for the announcement DgAnnounceA received
\* from 192.168.1.10 when the node was created: session 'Test', one L24
\* stream of two channels sent to 239.69.1.1, port 5004
AnnouncedStream ==
    [id |-> <<49>>, name |-> <<84, 101, 115, 116>>, description |-> <<>>,
     sourceIP |-> Ip10, destIP |-> IpMulticast, port |-> 5004,
     encoding |-> TextL24, sampleRate |-> AES67_SAMPLE_RATE, channels |-> 2,
     ptime |-> 1, mediaClk |-> TextDefaultClock, isMulticast |-> TRUE,
     sdp |-> SdpA, lastSeen |-> Epoch, status |-> "active"]

\* the router node after start(), the socket's 'listening' event and the
\* announcement DgAnnounceA from 192.168.1.10, all at the time the node was
\* created: the stream is registered and no subscribe command has come yet
RouterReady ==
    /\ now = Epoch
    /\ running = TRUE
    /\ sapSocket = "listening"
    /\ announcementInterval = [active |-> TRUE, next |-> Epoch + AnnounceIntervalMs]
    /\ cleanupInterval = [active |-> TRUE, next |-> Epoch + CleanupIntervalMs]
    /\ streams = <<[key |-> StreamKeyA, value |-> AnnouncedStream]>>
    /\ globalStreamRegistry = <<[key |-> StreamKeyA, value |-> AnnouncedStream]>>
    /\ devices = <<[key |-> Ip10,
                    value |-> [ip |-> Ip10, name |-> Ip10, streams |-> <<StreamKeyA>>]]>>
    /\ emitted = <<[topic |-> "stream/discovered", payload |-> AnnouncedStream]>>
    /\ nodeStatus = [fill |-> "green", text |-> "streams", streams |-> 1, devices |-> 1]
    /\ sapSends = 0
    /\ delivered = 1
    /\ lastOp = [op |-> "handleSAP", stage |-> "parseSDP", messageType |-> 0,
                 msg |-> DgAnnounceA, infos |-> <<AnnouncedStream>>]
    /\ notified = [since |-> {StreamKeyA}, ever |-> {StreamKeyA}]
    /\ subscriptions = <<>>
    /\ rtpSockets = <<>>
    /\ sockets = <<>>
    /\ sapSocketsOpen = 1
    /\ announceTimers = 1
    /\ cleanupTimers = 1

\* the router node serving commands and RTP datagrams for the stream that
\* was announced, until the node is closed
RouterNext ==
    \/ Stop
    \/ \E streamKey \in SubscribeKeys, localPort \in SubscribePorts :
           CreateSubscription(streamKey, localPort)
    \/ \E i \in 1..Len(sockets) : BindComplete(i)
    \/ \E i \in 1..Len(sockets) : BindError(i)
    \/ \E i \in 1..Len(sockets), msg \in RouterRtpDatagrams : HandleRTPPacket(i, msg)
    \/ \E streamKey \in SubscribeKeys, localPort \in SubscribePorts :
           RemoveSubscription(SubscriptionId(streamKey, localPort))

\* SAP datagrams that arrive while subscriptions exist: the re-announcement
\* of the stream with another description, and its deletion
LifetimeDatagrams == {DgAnnounceA2, DgDeleteA}

\* the router node receiving SAP datagrams, sweeping and closing while
\* subscriptions to the announced stream are made and removed
LifetimeNext ==
    \/ Stop
    \/ \E msg \in LifetimeDatagrams, rnd \in RandomIds : HandleSAP(msg, Ip10, rnd)
    \/ CleanupFire
    \/ Tick
    \/ \E localPort \in SubscribePorts : CreateSubscription(StreamKeyA, localPort)
    \/ \E i \in 1..Len(sockets) : BindComplete(i)
    \/ \E localPort \in SubscribePorts :
           RemoveSubscription(SubscriptionId(StreamKeyA, localPort))

\* the RTP datagram that arrives on the sockets of subscriptions while the
\* registry changes: the one of 14 bytes, which is delivered
FormatRtpDatagrams == {msg \in RtpDatagrams : Len(msg) = 14}

\* the router node delivering audio for its subscriptions while SAP
\* datagrams and the sweep change the registry
FormatNext ==
    \/ \E msg \in LifetimeDatagrams, rnd \in RandomIds : HandleSAP(msg, Ip10, rnd)
    \/ CleanupFire
    \/ Tick
    \/ \E localPort \in SubscribePorts : CreateSubscription(StreamKeyA, localPort)
    \/ \E i \in 1..Len(sockets) : BindComplete(i)
    \/ \E i \in 1..Len(sockets), msg \in FormatRtpDatagrams : HandleRTPPacket(i, msg)

(***************************************************************************)
(* Sender node: SAPAnnouncer from the node's creation to its close         *)
(***************************************************************************)

\* something a handler did to a timer or a socket
Event(name) == [event |-> name, packet |-> <<>>]

\* sapSocket.send(packet, ...)
SendEvent(packet) == [event |-> "send", packet |-> packet]

\* createSDP(): the text sdp.write gives for this.config, which no method
\* changes
CreateSDP(config) == config.sdp

\* sendAnnouncement(): the events it adds
AnnouncementEvents(a) ==
    IF a.sapSocket # "null"
    THEN <<SendEvent(CreateSAPPacket(CreateSDP(a.config), a.config.ip, a.config.hash))>>
    ELSE <<>>

\* sendDeletion(): the events it adds
DeletionEvents(a) ==
    IF a.sapSocket # "null"
    THEN <<SendEvent(DeletionPacket(CreateSDP(a.config), a.config.ip, a.config.hash))>>
    ELSE <<>>

\* new SAPAnnouncer(node, streamConfig), then start(): the socket is
\* created, the interval set and the first announcement sent
AnnouncerStart(config) ==
    LET a == [config |-> config, sapSocket |-> "open",
              announcementInterval |-> [active |-> TRUE, next |-> AnnounceIntervalMs]]
    IN  [announcer |-> a,
         events |-> <<Event("createSocket"), Event("setInterval")>> \o AnnouncementEvents(a)]

\* stop() closing the socket before it sends the deletion (mutation of
\* AnnouncerStop)
AnnouncerStopCloseFirst(a) ==
    [announcer |-> [a EXCEPT !.announcementInterval = ClearInterval(@),
                             !.sapSocket = "closed"],
     events |-> <<Event("clearInterval"), Event("close")>> \o DeletionEvents(a)]

\* SAPAnnouncer.stop(): clearInterval, sendDeletion(), sapSocket.close()
AnnouncerStop(a) ==
    [announcer |-> [a EXCEPT !.announcementInterval = ClearInterval(@),
                             !.sapSocket = IF @ = "null" THEN @ ELSE "closed"],
     events |-> (IF a.announcementInterval.active THEN <<Event("clearInterval")>> ELSE <<>>)
                \o DeletionEvents(a)
                \o (IF a.sapSocket # "null" THEN <<Event("close")>> ELSE <<>>)]

\* the stream configurations of the senders observed
SenderConfigs ==
    {[sdp |-> sdp, ip |-> ip, hash |-> hash] :
        sdp \in {SdpA, SdpB}, ip \in SourceIPs, hash \in MsgIdHashes}

\* announcements one sender's timer sends
MaxAnnouncements == 4

\* no sender node
SenderIdle ==
    /\ sapAnnouncer = None
    /\ senderLog = <<>>
    /\ senderClosed = FALSE

\* AES67SenderNode(config): the RTP socket is created and, with enableSAP,
\* the announcer is created and started
SenderInit ==
    /\ senderClosed = FALSE
    /\ \E enableSAP \in BOOLEAN, config \in SenderConfigs :
           IF enableSAP
           THEN /\ sapAnnouncer = Some(AnnouncerStart(config).announcer)
                /\ senderLog = <<Event("createRtpSocket")>> \o AnnouncerStart(config).events
           ELSE /\ sapAnnouncer = None
                /\ senderLog = <<Event("createRtpSocket")>>

\* the announcer's interval fires: sendAnnouncement()
SenderAnnounceFire ==
    /\ sapAnnouncer # None
    /\ sapAnnouncer[1].announcementInterval.active
    /\ Len(SelectSeq(senderLog, LAMBDA ev : ev.event = "send")) <= MaxAnnouncements
    /\ senderLog' = senderLog \o AnnouncementEvents(sapAnnouncer[1])
    /\ UNCHANGED <<sapAnnouncer, senderClosed, dvars, cvars, rvars, pvars, svars, lvars, bvars, evars, kvars, peer, notified>>

\* the sender node's 'close' event: sapAnnouncer.stop() if there is an
\* announcer, then rtpSocket.close()
SenderClose ==
    /\ ~senderClosed
    /\ senderClosed' = TRUE
    /\ IF sapAnnouncer # None
       THEN /\ sapAnnouncer' = Some(AnnouncerStop(sapAnnouncer[1]).announcer)
            /\ senderLog' = senderLog \o AnnouncerStop(sapAnnouncer[1]).events
                                      \o <<Event("closeRtpSocket")>>
       ELSE /\ sapAnnouncer' = sapAnnouncer
            /\ senderLog' = Append(senderLog, Event("closeRtpSocket"))
    /\ UNCHANGED <<dvars, cvars, rvars, pvars, svars, lvars, bvars, evars, kvars, peer, notified>>

SenderNext == SenderAnnounceFire \/ SenderClose

(***************************************************************************)
(* Receiver node: its RTP socket, multicast memberships and stats timer    *)
(***************************************************************************)

\* node.multicastGroup when none is configured
NoGroup == ""

\* the multicast groups configured or subscribed to
MulticastGroups == {"239.69.1.1", "239.69.1.2"}

\* runs of the statistics timer observed
MaxStatsRuns == 4

\* rtpSocket.addMembership(group) in a try/catch: the group is joined when
\* the call succeeds; when it throws, the memberships stay as they were
AddMembership(memberships, group, joinOk) ==
    IF joinOk THEN memberships \cup {group} ELSE memberships

\* rtpSocket.dropMembership(group) throws when the socket is not a member of
\* the group
DropThrows(memberships, group) == group \notin memberships

\* the try block of the close handler: dropMembership if a group is
\* configured, then close(); a throw of dropMembership leaves the block
\* before close()
CloseRtpSocket(socket, memberships, group) ==
    IF group # NoGroup /\ DropThrows(memberships, group) THEN socket ELSE "closed"

\* bitsPerSample / 8 of the constructor
BytesPerSampleOf(encoding) ==
    IF encoding = TextL24 THEN 3 ELSE IF encoding = TextL16 THEN 2 ELSE 3

\* the format fields of a node constructed with this configuration
ReceiverConfig(sampleRate, channels, encoding) ==
    [sampleRate |-> sampleRate, channels |-> channels, encoding |-> encoding,
     bytesPerSample |-> BytesPerSampleOf(encoding)]

\* no streamInfo.sampleRate or streamInfo.channels
NoNumber == 0

\* no streamInfo.encoding
NoText == <<>>

\* node.running: set by the bind callback, cleared by the close handler
ReceiverRunning == receiverSocket = "bound" /\ ~receiverClosed

\* no receiver node
ReceiverIdle ==
    /\ receiverFormat = ReceiverConfig(AES67_SAMPLE_RATE, 2, TextL24)
    /\ receiverOp = [op |-> "init", audio |-> None]
    /\ receiverGroup = NoGroup
    /\ receiverSocket = "null"
    /\ receiverMemberships = {}
    /\ receiverStats = [active |-> FALSE, runs |-> 0]
    /\ receiverClosed = FALSE

\* AES67ReceiverNode(config): the socket is created and bind() called, the
\* statistics interval is set
ReceiverInit ==
    /\ receiverFormat = ReceiverConfig(AES67_SAMPLE_RATE, 2, TextL24)
    /\ receiverOp = [op |-> "init", audio |-> None]
    /\ receiverGroup \in MulticastGroups \cup {NoGroup}
    /\ receiverSocket = "binding"
    /\ receiverMemberships = {}
    /\ receiverStats = [active |-> TRUE, runs |-> 0]
    /\ receiverClosed = FALSE

\* the bind callback: the configured group is joined, if the join succeeds
ReceiverBound(joinOk) ==
    /\ receiverSocket = "binding"
    /\ receiverSocket' = "bound"
    /\ receiverMemberships' =
           IF receiverGroup # NoGroup
           THEN AddMembership(receiverMemberships, receiverGroup, joinOk)
           ELSE receiverMemberships
    /\ receiverOp' = [op |-> "bound", audio |-> None]
    /\ UNCHANGED <<receiverGroup, receiverStats, receiverClosed, receiverFormat,
                   dvars, cvars, rvars, pvars, svars, lvars, bvars, avars, kvars, peer, notified>>

\* the bind fails: the socket emits 'error', the handler reports it, and
\* the bind callback never runs
ReceiverBindError ==
    /\ receiverSocket = "binding"
    /\ receiverSocket' = "unbound"
    /\ UNCHANGED <<receiverGroup, receiverMemberships, receiverStats, receiverClosed,
                   receiverFormat, receiverOp, dvars, cvars, rvars, pvars, svars, lvars, bvars, avars, kvars, peer, notified>>

\* input with topic 'subscribe': subscribeToStream(node, streamInfo).  The
\* group configured is left, the fields streamInfo has replace the node's
\* (node.bytesPerSample and the audio buffer's cap are not updated), the
\* group is joined, the parser is reset and the buffer cleared
SubscribeToStream(streamInfo, joinOk) ==
    /\ ~receiverClosed
    /\ LET left == IF receiverGroup # NoGroup
                   THEN receiverMemberships \ {receiverGroup}
                   ELSE receiverMemberships
           newGroup == IF streamInfo.multicastGroup # NoGroup THEN streamInfo.multicastGroup
                       ELSE receiverGroup
       IN  /\ receiverGroup' = newGroup
           /\ receiverMemberships' =
                  IF newGroup # NoGroup
                  THEN AddMembership(left, newGroup, joinOk)
                  ELSE left
    /\ receiverFormat' =
           [receiverFormat EXCEPT
               !.sampleRate = IF streamInfo.sampleRate # NoNumber THEN streamInfo.sampleRate
                              ELSE @,
               !.channels = IF streamInfo.channels # NoNumber THEN streamInfo.channels ELSE @,
               !.encoding = IF streamInfo.encoding # NoText THEN streamInfo.encoding ELSE @]
    /\ lastSequence' = None
    /\ packetsLost' = 0
    /\ packetsReceived' = 0
    /\ parserSeqs' = <<>>
    /\ buffers' = <<>>
    /\ bufferOp' = [op |-> "clear", size |-> 0, result |-> None]
    /\ bufferLossy' = TRUE
    /\ receiverOp' = [op |-> "subscribe", audio |-> None]
    /\ UNCHANGED <<receiverSocket, receiverStats, receiverClosed, parserIn, parserOut,
                   bufferFormat, bufferAppended, bufferDelivered,
                   dvars, cvars, rvars, svars, lvars, avars, kvars, peer, notified>>

\* const chunkSize = node.sampleRate * node.channels * node.bytesPerSample
\* * 0.01 (the formats observed give whole numbers)
ChunkSize(format) == (format.sampleRate * format.channels * format.bytesPerSample) \div 100

\* the audio message of handleRTPPacket in buffer mode
AudioMessage(audioData, format, header) ==
    [topic |-> "audio", payload |-> audioData, format |-> format,
     rtp |-> [timestamp |-> header.timestamp, sequenceNumber |-> header.sequenceNumber,
              ssrc |-> header.ssrc]]

\* the 'message' event of the receiver's socket: handleRTPPacket(node,
\* buffer, rinfo) of a node whose output mode is 'buffer'
ReceiverHandleRTP(buffer) ==
    LET r == ParsePacket([lastSequence |-> lastSequence, packetsLost |-> packetsLost,
                          packetsReceived |-> packetsReceived], buffer)
        packet == r.result[1]
        added == IF r.result # None /\ Len(packet.payload) > 0
                 THEN AddAudioData(buffers, packet.payload, bufferFormat)
                 ELSE buffers
        got == IF r.result # None THEN GetAudioData(added, ChunkSize(receiverFormat))
               ELSE [buffers |-> buffers, result |-> None]
    IN  /\ ReceiverRunning
        /\ Len(buffer) >= 12 => Len(parserSeqs) < MaxParsed
        /\ lastSequence' = r.parser.lastSequence
        /\ packetsLost' = r.parser.packetsLost
        /\ packetsReceived' = r.parser.packetsReceived
        /\ parserSeqs' = IF r.result = None THEN parserSeqs
                         ELSE Append(parserSeqs, packet.header.sequenceNumber)
        /\ parserIn' = [buffer |-> buffer, built |-> None]
        /\ parserOut' = r.result
        /\ buffers' = got.buffers
        /\ receiverOp' = [op |-> "rtp",
                          audio |-> IF got.result = None THEN None
                                    ELSE Some(AudioMessage(got.result[1], receiverFormat,
                                                           packet.header))]
        /\ UNCHANGED <<receiverGroup, receiverSocket, receiverMemberships, receiverStats,
                       receiverClosed, receiverFormat, bufferFormat, bufferAppended, bufferOp,
                       bufferDelivered, bufferLossy,
                       dvars, cvars, rvars, svars, lvars, avars, kvars, peer, notified>>

\* the statistics interval fires
StatsFire ==
    /\ receiverStats.active
    /\ receiverStats.runs < MaxStatsRuns
    /\ receiverStats' = [receiverStats EXCEPT !.runs = @ + 1]
    /\ UNCHANGED <<receiverGroup, receiverSocket, receiverMemberships, receiverClosed,
                   receiverFormat, receiverOp, dvars, cvars, rvars, pvars, svars, lvars, bvars, avars, kvars, peer, notified>>

\* the receiver node's 'close' event
ReceiverClose ==
    /\ ~receiverClosed
    /\ receiverClosed' = TRUE
    /\ receiverStats' = [receiverStats EXCEPT !.active = FALSE]
    /\ receiverSocket' = CloseRtpSocket(receiverSocket, receiverMemberships, receiverGroup)
    /\ receiverMemberships' =
           IF receiverGroup # NoGroup THEN receiverMemberships \ {receiverGroup}
           ELSE receiverMemberships
    /\ receiverOp' = [op |-> "close", audio |-> None]
    /\ UNCHANGED <<receiverGroup, receiverFormat,
                   dvars, cvars, rvars, pvars, svars, lvars, bvars, avars, kvars, peer, notified>>

ReceiverNext ==
    \/ \E joinOk \in BOOLEAN : ReceiverBound(joinOk)
    \/ ReceiverBindError
    \/ \E group \in MulticastGroups \cup {NoGroup}, joinOk \in BOOLEAN :
           SubscribeToStream([multicastGroup |-> group, sampleRate |-> NoNumber,
                              channels |-> NoNumber, encoding |-> NoText], joinOk)
    \/ StatsFire
    \/ ReceiverClose

\* the configurations of the receivers that play out, scaled so that 10 ms
\* of audio is 2 or 3 bytes and the buffer's cap 20 or 30
PlayoutConfigs == {ReceiverConfig(100, 1, encoding) : encoding \in {TextL16, TextL24}}

\* the streams subscribed to: one or two channels at the same or twice the
\* rate, and sixteen channels
PlayoutStreams ==
    [multicastGroup : {NoGroup}, sampleRate : {100, 200}, channels : {1, 2, 16},
     encoding : {TextL16, TextL24}]

\* valid RTP packets with a payload of 3 bytes
PlayoutDatagrams ==
    {BuiltPacket([payloadType |-> AES67_RTP_PAYLOAD_TYPE, marker |-> FALSE,
                  sequenceNumber |-> seq, timestamp |-> Number32(0, 48),
                  ssrc |-> Ssrc, audioData |-> <<255, 0, 3>>]) : seq \in {0, 1}}

\* a receiver node just constructed, with no multicast group: its buffer is
\* made from the configured format
PlayoutInit ==
    /\ receiverFormat \in PlayoutConfigs
    /\ receiverOp = [op |-> "init", audio |-> None]
    /\ receiverGroup = NoGroup
    /\ receiverSocket = "binding"
    /\ receiverMemberships = {}
    /\ receiverStats = [active |-> TRUE, runs |-> 0]
    /\ receiverClosed = FALSE
    /\ bufferFormat = [sampleRate |-> receiverFormat.sampleRate,
                       channels |-> receiverFormat.channels,
                       bytesPerSample |-> receiverFormat.bytesPerSample]
    /\ buffers = <<>>
    /\ bufferAppended = 0
    /\ bufferOp = [op |-> "init", size |-> 0, result |-> None]
    /\ bufferDelivered = <<>>
    /\ bufferLossy = FALSE

\* packets arrive
PacketArrives == \E buffer \in PlayoutDatagrams : ReceiverHandleRTP(buffer)

\* one dynamic subscribe, sent to a node that plays its configured format
SubscribeOnce ==
    /\ [sampleRate |-> receiverFormat.sampleRate, channels |-> receiverFormat.channels,
        bytesPerSample |-> receiverFormat.bytesPerSample] = bufferFormat
    /\ \E streamInfo \in PlayoutStreams :
           /\ <<streamInfo.sampleRate, streamInfo.channels>>
                  # <<receiverFormat.sampleRate, receiverFormat.channels>>
           /\ SubscribeToStream(streamInfo, TRUE)

\* the receiver binds, is subscribed once to another stream, receives
\* packets and is closed
PlayoutNext ==
    \/ ReceiverBound(TRUE)
    \/ PacketArrives
    \/ SubscribeOnce
    \/ ReceiverClose

(***************************************************************************)
(* The SAP packets the program builds                                      *)
(***************************************************************************)

\* a byte of Buffer.allocUnsafe(n) that nothing has written
Uninitialized == -1

\* Buffer.allocUnsafe(n)
AllocUnsafe(n) == [i \in 1..n |-> Uninitialized]

\* bytes.copy(buf, offset) / buf.write(text, offset, 'ascii'): the bytes
\* that fit are written from offset on, the rest is dropped
BufferWrite(buf, bytes, offset) ==
    [i \in 1..Len(buf) |->
        IF i > offset /\ i <= offset + Len(bytes) THEN bytes[i - offset] ELSE buf[i]]

\* 'application/sdp'
TextApplicationSdp == SubSeq(PayloadTypeTag, 1, 15)

\* AES67Discovery.createSAPPacket(sdpData): None for null. The buffer has
\* 8 + 8 + sdpBuffer.length bytes, 'application/sdp' is written at offset 8
\* and the SDP at offset 16
DiscoveryCreateSAPPacket(sdpData, localIP) ==
    LET sdpBuffer == Utf8Encode(sdpData)
        ipParts == Split(localIP, 46)
        ipByte(i) == OrDefault(ParseInt(ipParts[i]), 0) % 256
        header == <<32, 0, 0, 0, ipByte(1), ipByte(2), ipByte(3), ipByte(4)>>
    IN  IF sdpData = <<>> \/ Len(ipParts) # 4
        THEN None
        ELSE Some(BufferWrite(BufferWrite(BufferWrite(
                 AllocUnsafe(8 + 8 + Len(sdpBuffer)), header, 0),
                 TextApplicationSdp, 8), sdpBuffer, 8 + 8))

\* the SDP texts handed to the builders
BuilderSdps == {SdpA, SdpA2, SdpB, TextV0}

\* the message-id hashes of the senders observed
BuilderHashes == {0, 4660, 65535}

\* nothing is being built
PacketIdle ==
    /\ sapInput = None
    /\ sapBuilt = None

\* an SDP text, the local address and a sender's message-id hash
PacketInit ==
    /\ sapInput \in {Some([sdp |-> sdp, ip |-> ip, hash |-> hash]) :
                        sdp \in BuilderSdps, ip \in SourceIPs, hash \in BuilderHashes}
    /\ sapBuilt = None

\* SAPAnnouncer.sendAnnouncement builds its packet
BuildAnnouncement ==
    /\ sapInput # None
    /\ sapBuilt' = Some([by |-> "sender", type |-> "announce",
                         packet |-> Some(CreateSAPPacket(sapInput[1].sdp, sapInput[1].ip,
                                                         sapInput[1].hash))])
    /\ UNCHANGED <<sapInput, dvars, cvars, rvars, pvars, svars, lvars, bvars, avars, evars, peer, notified>>

\* SAPAnnouncer.sendDeletion builds its packet
BuildDeletion ==
    /\ sapInput # None
    /\ sapBuilt' = Some([by |-> "sender", type |-> "delete",
                         packet |-> Some(DeletionPacket(sapInput[1].sdp, sapInput[1].ip,
                                                        sapInput[1].hash))])
    /\ UNCHANGED <<sapInput, dvars, cvars, rvars, pvars, svars, lvars, bvars, avars, evars, peer, notified>>

\* AES67Discovery.sendSAPAnnouncements builds its packet
BuildDiscoveryAnnouncement ==
    /\ sapInput # None
    /\ sapBuilt' = Some([by |-> "discovery", type |-> "announce",
                         packet |-> DiscoveryCreateSAPPacket(sapInput[1].sdp, sapInput[1].ip)])
    /\ UNCHANGED <<sapInput, dvars, cvars, rvars, pvars, svars, lvars, bvars, avars, evars, peer, notified>>

PacketNext == BuildAnnouncement \/ BuildDeletion \/ BuildDiscoveryAnnouncement

(***************************************************************************)
(* A stream announced by the sender node and discovered by the router node *)
(***************************************************************************)

\* CR LF
TextCrLf == <<13, 10>>

\* 'Sender'
TextSender == <<83, 101, 110, 100, 101, 114>>

\* sdp.write(session) for the session object createSDP builds from
\* this.config: v=, o=, s=, c=, t=, then the media section with m=,
\* a=rtpmap and a=ptime
SdpWrite(config) ==
    TextV0 \o TextCrLf
    \o <<111, 61, 110, 111, 100, 101, 45, 114, 101, 100, 32>> \o config.sessionId \o <<32, 49, 32, 73, 78, 32, 73, 80, 52, 32>>
       \o config.sourceIP \o TextCrLf
    \o <<115, 61>> \o config.streamName \o TextCrLf
    \o <<99, 61, 73, 78, 32, 73, 80, 52, 32>> \o config.destIP \o TextCrLf
    \o <<116, 61, 48, 32, 48>> \o TextCrLf
    \o <<109, 61, 97, 117, 100, 105, 111, 32>> \o Decimal(config.port) \o <<32, 82, 84, 80, 47, 65, 86, 80, 32>>
       \o Decimal(config.payloadType) \o TextCrLf
    \o <<97, 61, 114, 116, 112, 109, 97, 112, 58>> \o Decimal(config.payloadType) \o <<32>> \o config.encoding \o <<47>>
       \o Decimal(config.sampleRate) \o <<47>> \o Decimal(config.channels) \o TextCrLf
    \o <<97, 61, 112, 116, 105, 109, 101, 58>> \o Decimal(config.ptime) \o TextCrLf

\* the stream configurations of the sender nodes that announce: channels,
\* sample rate and encoding as configured, the rest fixed
AnnouncedConfigs ==
    {[streamName |-> TextSender, sourceIP |-> Ip10, destIP |-> IpMulticast, port |-> 5004,
      sampleRate |-> sampleRate, channels |-> channels, encoding |-> encoding,
      ptime |-> 1, payloadType |-> AES67_RTP_PAYLOAD_TYPE, sessionId |-> Decimal(Epoch)] :
        sampleRate \in {44100, AES67_SAMPLE_RATE, 96000},
        channels \in {1, 2, 8},
        encoding \in {TextL16, TextL24}}

\* a sender node with SAP enabled
AnnounceInit ==
    /\ sapInput \in {Some([sdp |-> SdpWrite(config), ip |-> config.sourceIP, hash |-> 4660,
                           config |-> config]) : config \in AnnouncedConfigs}
    /\ sapBuilt = None

\* the router's socket receives the sender's packet: handleSAPMessage, then
\* parseSDP and registerStream
HandleAnnounced ==
    /\ sapSocket = "listening"
    /\ sapBuilt # None
    /\ LET msg == sapBuilt[1].packet[1]
           d == DecodeSAP(msg)
           infos == IF d.deliver /\ sdpAvailable
                    THEN ParseSession(SdpParse(d.sdpData), d.sdpData, d.sourceIP,
                                      sapInput[1].ip, d.messageType, now, <<>>)
                    ELSE <<>>
           r == RegisterAll(RegistryState, infos, 1)
       IN  /\ streams' = r.streams
           /\ globalStreamRegistry' = r.registry
           /\ devices' = r.devices
           /\ emitted' = r.emitted
           /\ nodeStatus' = r.nodeStatus
           /\ lastOp' = [op |-> "handleSAP", stage |-> d.stage,
                         messageType |-> d.messageType, msg |-> msg, infos |-> infos]
    /\ sapSends' = 0
    /\ notified' = RecordEvents(notified, emitted', globalStreamRegistry')
    /\ UNCHANGED <<cvars, rvars, pvars, svars, now, running, sapSocket, announcementInterval,
                   cleanupInterval, delivered, lvars, bvars, avars, evars, kvars, peer>>

\* the sender announces or deletes its stream while the router starts and
\* listens
AnnounceNext ==
    \/ Start
    \/ SapListening
    \/ BuildAnnouncement
    \/ BuildDeletion
    \/ HandleAnnounced

(***************************************************************************)
(* A second router node of the same module                                 *)
(*                                                                         *)
(* globalStreamRegistry is one Map for every node of the module; each node *)
(* has its own AES67Discovery with its own streams, devices, socket and    *)
(* timers.  peer holds the fields of the second node's engine.             *)
(***************************************************************************)

\* no second node
NoPeer ==
    [running |-> FALSE, sapSocket |-> "null", announcementInterval |-> NoTimer,
     cleanupInterval |-> NoTimer, streams |-> <<>>, devices |-> <<>>,
     nodeStatus |-> [fill |-> "none", text |-> "none", streams |-> 0, devices |-> 0]]

PeerIdle == peer = NoPeer

\* the second node after start() and the socket's 'listening' event, at the
\* time the first node was created: it has received the announcement
\* DgAnnounceA as the first node has, or was started after it was sent
PeerReady ==
    peer \in
        {[running |-> TRUE, sapSocket |-> "listening",
          announcementInterval |-> [active |-> TRUE, next |-> Epoch + AnnounceIntervalMs],
          cleanupInterval |-> [active |-> TRUE, next |-> Epoch + CleanupIntervalMs],
          streams |-> heard, devices |-> from,
          nodeStatus |-> NodeStatusOf(heard, from)] :
            <<heard, from>> \in {<<streams, devices>>, << <<>>, <<>> >>}}

\* the registry state the second node's engine works on
PeerRegistryState ==
    [streams |-> peer.streams, registry |-> globalStreamRegistry, devices |-> peer.devices,
     emitted |-> <<>>, nodeStatus |-> peer.nodeStatus]

\* the 'message' event of the second node's socket
PeerHandleSAP(msg, address, rnd) ==
    LET d == DecodeSAPTable[msg]
        infos == HandleSAPMessage(msg, address, rnd, now)
        r == RegisterAll(PeerRegistryState, infos, 1)
    IN  /\ peer.sapSocket = "listening"
        /\ d.deliver => delivered < MaxDelivered
        /\ peer' = [peer EXCEPT !.streams = r.streams, !.devices = r.devices,
                                !.nodeStatus = r.nodeStatus]
        /\ globalStreamRegistry' = r.registry
        /\ emitted' = r.emitted
        /\ delivered' = IF d.deliver THEN delivered + 1 ELSE delivered
        /\ sapSends' = 0
        /\ lastOp' = [op |-> "peerHandleSAP", stage |-> d.stage,
                      messageType |-> d.messageType, msg |-> msg, infos |-> infos]
        /\ notified' = RecordEvents(notified, emitted', globalStreamRegistry')
        /\ UNCHANGED <<cvars, rvars, pvars, svars, now, running, sapSocket,
                       announcementInterval, cleanupInterval, streams, devices, nodeStatus,
                       lvars, bvars, avars, evars, kvars>>

\* the second node's cleanup timer fires: cleanupStaleStreams()
PeerCleanupFire ==
    /\ peer.cleanupInterval.active
    /\ now >= peer.cleanupInterval.next
    /\ LET r == CleanupStaleStreams(PeerRegistryState, now)
       IN  /\ peer' = [peer EXCEPT !.cleanupInterval =
                                       [active |-> TRUE, next |-> now + CleanupIntervalMs],
                                   !.streams = r.streams, !.devices = r.devices,
                                   !.nodeStatus = r.nodeStatus]
           /\ globalStreamRegistry' = r.registry
           /\ emitted' = r.emitted
    /\ sapSends' = 0
    /\ lastOp' = Op("peerCleanup")
    /\ notified' = RecordEvents(notified, emitted', globalStreamRegistry')
    /\ UNCHANGED <<cvars, rvars, pvars, svars, now, running, sapSocket, announcementInterval,
                   cleanupInterval, streams, devices, nodeStatus, delivered, lvars, bvars,
                   avars, evars, kvars>>

\* the second node's 'close': discovery.stop()
PeerStop ==
    /\ peer.running
    /\ peer' = [peer EXCEPT !.running = FALSE,
                            !.announcementInterval = ClearInterval(@),
                            !.cleanupInterval = ClearInterval(@),
                            !.sapSocket = "closed"]
    /\ emitted' = <<>>
    /\ sapSends' = 0
    /\ lastOp' = Op("peerStop")
    /\ UNCHANGED <<cvars, rvars, pvars, svars, now, running, sapSocket, announcementInterval,
                   cleanupInterval, streams, devices, globalStreamRegistry, nodeStatus,
                   delivered, lvars, bvars, avars, evars, kvars, notified>>

\* getStreams()
GetStreams(map) == [i \in 1..Len(map) |-> map[i].value]

\* the 'list_streams' command on the first node
ListStreams ==
    /\ ~nodeClosed
    /\ emitted' = <<[topic |-> "streams", payload |-> GetStreams(streams)]>>
    /\ sapSends' = 0
    /\ lastOp' = Op("list_streams")
    /\ UNCHANGED <<cvars, rvars, pvars, svars, now, running, sapSocket, announcementInterval,
                   cleanupInterval, streams, devices, globalStreamRegistry, nodeStatus,
                   delivered, lvars, bvars, avars, evars, kvars, peer, notified>>

\* the 'subscribe' command on the first node
InputSubscribe(streamKey, localPort) == ~nodeClosed /\ CreateSubscription(streamKey, localPort)

\* two router nodes on one registry: datagrams reach either node, time
\* passes, either sweep timer fires, either node is closed, and the first
\* node is asked for its streams and to subscribe
SharedNext ==
    \/ \E msg \in LifetimeDatagrams, rnd \in RandomIds : HandleSAP(msg, Ip10, rnd)
    \/ \E msg \in LifetimeDatagrams, rnd \in RandomIds : PeerHandleSAP(msg, Ip10, rnd)
    \/ CleanupFire
    \/ PeerCleanupFire
    \/ Tick
    \/ NodeClose
    \/ PeerStop
    \/ ListStreams
    \/ InputSubscribe(StreamKeyA, 0)

(***************************************************************************)
(* Specifications                                                          *)
(***************************************************************************)

vars == <<dvars, cvars, rvars, pvars, svars, lvars, bvars, avars, evars, kvars, peer, notified>>

\* one router node discovering streams
Init == DiscoveryInit /\ CodecIdle /\ RtpIdle /\ ParserIdle /\ NodeIdle /\ BufferIdle /\ SenderIdle /\ ReceiverIdle /\ PacketIdle /\ PeerIdle

Next == DiscoveryNext

Spec == Init /\ [][Next]_vars

\* the same, with timers that fire and time that passes
FairSpec == Spec /\ WF_vars(Tick) /\ WF_vars(CleanupFire) /\ WF_vars(AnnounceFire)

\* a packet of the sender's announcer decoded by the router
InitSap == DiscoveryInit /\ CodecInit /\ RtpIdle /\ ParserIdle /\ NodeIdle /\ BufferIdle /\ SenderIdle /\ ReceiverIdle /\ PacketIdle /\ PeerIdle

SpecSap == InitSap /\ [][CodecNext]_vars

\* the sender's RTP packet builder
InitRtp == DiscoveryInit /\ CodecIdle /\ RtpInit /\ ParserIdle /\ NodeIdle /\ BufferIdle /\ SenderIdle /\ ReceiverIdle /\ PacketIdle /\ PeerIdle

SpecRtp == InitRtp /\ [][RtpNext]_vars

\* one audio buffer
InitBuffer ==
    DiscoveryInit /\ CodecIdle /\ RtpIdle /\ ParserIdle /\ NodeIdle /\ BufferInit /\ SenderIdle /\ ReceiverIdle /\ PacketIdle /\ PeerIdle

SpecBuffer == InitBuffer /\ [][BufferNext]_vars

\* a sender node's stream discovered by a router node
InitAnnounce ==
    DiscoveryInit /\ CodecIdle /\ RtpIdle /\ ParserIdle /\ NodeIdle /\ BufferIdle /\ SenderIdle
    /\ ReceiverIdle /\ AnnounceInit /\ PeerIdle

SpecAnnounce == InitAnnounce /\ [][AnnounceNext]_vars

\* the packet builders
InitPackets ==
    DiscoveryInit /\ CodecIdle /\ RtpIdle /\ ParserIdle /\ NodeIdle /\ BufferIdle /\ SenderIdle
    /\ ReceiverIdle /\ PacketInit /\ PeerIdle

SpecPackets == InitPackets /\ [][PacketNext]_vars

\* one receiver node
InitReceiver ==
    DiscoveryInit /\ CodecIdle /\ RtpIdle /\ ParserIdle /\ NodeIdle /\ BufferIdle /\ SenderIdle
    /\ ReceiverInit /\ PacketIdle /\ PeerIdle

SpecReceiver == InitReceiver /\ [][ReceiverNext]_vars

\* one receiver node playing out in buffer mode
InitPlayout ==
    DiscoveryInit /\ CodecIdle /\ RtpIdle /\ ParserIdle /\ NodeIdle /\ SenderIdle
    /\ PlayoutInit /\ PacketIdle /\ PeerIdle

SpecPlayout == InitPlayout /\ [][PlayoutNext]_vars

\* the same, with packets that keep arriving and a bind that completes
FairPlayout == SpecPlayout /\ WF_vars(PacketArrives) /\ WF_vars(ReceiverBound(TRUE))

\* one sender node
InitSender ==
    DiscoveryInit /\ CodecIdle /\ RtpIdle /\ ParserIdle /\ NodeIdle /\ BufferIdle /\ SenderInit /\ ReceiverIdle /\ PacketIdle /\ PeerIdle

SpecSender == InitSender /\ [][SenderNext]_vars

\* the discovery engine alone
SpecEngine == Init /\ [][EngineNext]_vars

\* a router node just created
InitNode == DiscoveryInit /\ CodecIdle /\ RtpIdle /\ ParserIdle /\ NodeCreated /\ BufferIdle /\ SenderIdle /\ ReceiverIdle /\ PacketIdle /\ PeerIdle

\* the life of one router node
SpecNode == InitNode /\ [][NodeNext]_vars

\* a router node that has discovered a stream
InitRouter == RouterReady /\ CodecIdle /\ RtpIdle /\ ParserIdle /\ NodeIdle /\ BufferIdle /\ SenderIdle /\ ReceiverIdle /\ PacketIdle /\ PeerIdle

\* the router node serving subscriptions
SpecRouter == InitRouter /\ [][RouterNext]_vars

\* the router node receiving SAP datagrams and sweeping while subscriptions
\* exist
SpecLifetime == InitRouter /\ [][LifetimeNext]_vars

\* the router node delivering audio while the registry changes
SpecFormat == InitRouter /\ [][FormatNext]_vars

\* two router nodes sharing the registry
InitShared ==
    RouterReady /\ CodecIdle /\ RtpIdle /\ ParserIdle /\ NodeIdle /\ BufferIdle /\ SenderIdle
    /\ ReceiverIdle /\ PacketIdle /\ PeerReady

SpecShared == InitShared /\ [][SharedNext]_vars

\* the receiver's RTP packet parser
SpecParser == Init /\ [][ParserNext]_vars

(***************************************************************************)
(* Properties of the registry                                              *)
(***************************************************************************)

\* the streamInfo objects registerStream does not return early on
Registrable(infos) ==
    SelectSeq(infos, LAMBDA info : info.sourceIP # <<>> /\ info.port # 0)

\* the last registration for key k in a step's registrations
LastFor(infos, k) ==
    infos[CHOOSE i \in 1..Len(infos) :
              /\ StreamKey(infos[i]) = k
              /\ \A j \in (i + 1)..Len(infos) : StreamKey(infos[j]) # k]

KeysOf(infos) == {StreamKey(infos[i]) : i \in 1..Len(infos)}

\* the stream/discovered messages a step with these registrations must send:
\* one for each active registration whose key neither was in the map nor
\* was registered earlier in the step
ExpectedDiscovered(before, infos) ==
    LET firstNew(i) ==
            /\ ~MapHas(before, StreamKey(infos[i]))
            /\ \A j \in 1..(i - 1) : StreamKey(infos[j]) # StreamKey(infos[i])
            /\ infos[i].status = "active"
        at == SelectSeq(Indices(Len(infos)), firstNew)
    IN  [n \in 1..Len(at) |-> [topic |-> "stream/discovered", payload |-> infos[at[n]]]]

NoDuplicateKeys(m) == \A i, j \in 1..Len(m) : m[i].key = m[j].key => i = j

UpsertStep ==
    lastOp'.op = "handleSAP" =>
        LET infos == Registrable(lastOp'.infos)
        IN  /\ MapKeys(streams') = MapKeys(streams) \cup KeysOf(infos)
            /\ \A k \in KeysOf(infos) : MapGet(streams', k) = LastFor(infos, k)
            /\ \A k \in MapKeys(streams) \ KeysOf(infos) :
                   MapGet(streams', k) = MapGet(streams, k)
            /\ emitted' = ExpectedDiscovered(streams, infos)

\* C1: the stream map never holds two entries with one key; after a step
\* that registers streams the entry of each registered key is the last
\* registration for it and the other entries are as before; and the step
\* sends stream/discovered exactly for the active registrations whose key
\* was not in the map before
RegistryUpsert ==
    [][NoDuplicateKeys(streams') /\ NoDuplicateKeys(globalStreamRegistry') /\ UpsertStep]_vars

\* a second announcement for a key already in the map replaced the entry
\* and sent nothing
UpsertReplaced ==
    /\ lastOp.op = "handleSAP"
    /\ lastOp.msg = DgAnnounceA2
    /\ delivered = 2
    /\ Len(streams) = 1
    /\ streams[1].value.sdp = SdpA2
    /\ streams[1].value.status = "active"
    /\ emitted = <<>>

(***************************************************************************)
(* Properties of the TTL sweep                                             *)
(***************************************************************************)

\* the keys of the entries older than 120 s at time t
ExpiredKeys(m, t) == {k \in MapKeys(m) : t - MapGet(m, k).lastSeen > 120000}

\* the stream/removed messages in a step's output
RemovedEvents(out) == SelectSeq(out, LAMBDA e : e.topic = "stream/removed")

\* C2: a sweep at time now removes from the stream map exactly the entries
\* with now - lastSeen > 120 s, removes the same keys from the shared
\* registry, sends one stream/removed message for each removed entry and
\* nothing else, and leaves every other entry as it was
SweepRemovesExactlyStale ==
    [][lastOp'.op = "cleanup" =>
          LET gone == ExpiredKeys(streams, now)
              out == RemovedEvents(emitted')
          IN  /\ MapKeys(streams') = MapKeys(streams) \ gone
              /\ MapKeys(globalStreamRegistry') = MapKeys(globalStreamRegistry) \ gone
              /\ \A k \in MapKeys(streams') : MapGet(streams', k) = MapGet(streams, k)
              /\ \A k \in MapKeys(globalStreamRegistry') :
                     MapGet(globalStreamRegistry', k) = MapGet(globalStreamRegistry, k)
              /\ emitted' = out
              /\ Len(out) = Cardinality(gone)
              /\ \A k \in gone : \E n \in 1..Len(out) : out[n].payload = MapGet(streams, k)
      ]_vars

\* a sweep removed an entry aged 121 s and kept one aged exactly 120 s
SweptAt121KeptAt120 ==
    /\ lastOp.op = "cleanup"
    /\ Len(emitted) = 1
    /\ emitted[1].topic = "stream/removed"
    /\ now - emitted[1].payload.lastSeen = 121000
    /\ ~MapHas(globalStreamRegistry, StreamKey(emitted[1].payload))
    /\ Len(streams) = 1
    /\ now - streams[1].value.lastSeen = 120000

(***************************************************************************)
(* Properties of SAP deletion messages                                     *)
(***************************************************************************)

\* the last step handled a datagram that reached parseSDP with the
\* message-type bit (bit 2 of byte 0) set
DeletionHandled(op) ==
    /\ op.op = "handleSAP"
    /\ op.stage = "parseSDP"
    /\ (op.msg[1] \div 4) % 2 = 1

\* C4 as stated: once a deletion message for a stream that is in the stream
\* map is processed, the stream is in neither the stream map nor the shared
\* registry
DeletionRemovesImmediately ==
    [][DeletionHandled(lastOp') =>
          \A k \in KeysOf(Registrable(lastOp'.infos)) \cap MapKeys(streams) :
              ~MapHas(streams', k) /\ ~MapHas(globalStreamRegistry', k)
      ]_vars

\* C4, amended: a deletion message leaves the stream in the stream map and
\* in the shared registry, marked deleted and with lastSeen set to the time
\* of the message; an entry leaves the stream map or the registry only in a
\* sweep, when it is older than 120 s
DeletionKeepsUntilSweep ==
    [][/\ DeletionHandled(lastOp') =>
              \A k \in KeysOf(Registrable(lastOp'.infos)) :
                  /\ MapHas(streams', k) /\ MapHas(globalStreamRegistry', k)
                  /\ MapGet(streams', k).status = "deleted"
                  /\ MapGet(streams', k).lastSeen = now
       /\ \A k \in MapKeys(streams) \ MapKeys(streams') :
              lastOp'.op = "cleanup" /\ now - MapGet(streams, k).lastSeen > 120000
       /\ \A k \in MapKeys(globalStreamRegistry) \ MapKeys(globalStreamRegistry') :
              lastOp'.op = "cleanup" /\ now - MapGet(globalStreamRegistry, k).lastSeen > 120000
      ]_vars

\* a stream announced and then withdrawn is still the one entry of the map
DeletedStillListed ==
    /\ DeletionHandled(lastOp)
    /\ lastOp.msg = DgDeleteA
    /\ delivered = 2
    /\ Len(streams) = 1
    /\ Len(devices) = 1
    /\ streams[1].value.status = "deleted"
    /\ MapHas(globalStreamRegistry, streams[1].key)

\* C5: after a datagram with the message-type bit set is handled, each
\* stream it describes is in the stream map and in the shared registry
\* with the fields just decoded and status deleted, and the step sent no
\* stream/discovered message
DeleteWritesDeleted ==
    DeletionHandled(lastOp) =>
        /\ \A k \in KeysOf(Registrable(lastOp.infos)) :
               /\ MapHas(streams, k) /\ MapHas(globalStreamRegistry, k)
               /\ MapGet(streams, k) = LastFor(Registrable(lastOp.infos), k)
               /\ MapGet(globalStreamRegistry, k) = MapGet(streams, k)
               /\ MapGet(streams, k).status = "deleted"
        /\ \A n \in 1..Len(emitted) : emitted[n].topic # "stream/discovered"

\* a deletion for a key that was never announced created the entry
DeleteForAbsentKey ==
    /\ DeletionHandled(lastOp)
    /\ delivered = 1
    /\ Len(streams) = 1
    /\ streams[1].value.status = "deleted"
    /\ emitted = <<>>

(***************************************************************************)
(* Properties of handleSAPMessage                                          *)
(***************************************************************************)

\* C7: after the datagram 0x20,0,0,0,192,168,1,10, a null byte,
\* 'application/sdp\0' and the SDP text is handled, the stream map holds a
\* descriptor with sourceIP 192.168.1.10, destIP 239.69.1.1, port 5004,
\* 2 channels, 48000 Hz, L24, multicast
ScenarioRegisters ==
    lastOp.op = "handleSAP" /\ lastOp.msg = DgScenario =>
        \E i \in 1..Len(streams) :
            /\ streams[i].value.sourceIP = Ip10
            /\ streams[i].value.destIP = IpMulticast
            /\ streams[i].value.port = 5004
            /\ streams[i].value.channels = 2
            /\ streams[i].value.sampleRate = 48000
            /\ streams[i].value.encoding = TextL24
            /\ streams[i].value.isMulticast

\* the datagrams that are shorter than 8 bytes, carry a version other than
\* 1, have a payload offset at or past their end, or whose remaining text
\* does not begin with 'v=0'
MustDrop ==
    [msg \in Datagrams |->
        \/ Len(msg) < 8
        \/ (msg[1] \div 32) % 8 # 1
        \/ SapOffsetAuth(msg) >= Len(msg)
        \/ SapOffsetNull(msg) >= Len(msg)
        \/ SapOffsetPayload(msg) >= Len(msg)
        \/ ~StartsWith(Utf8Decode(Slice(msg, SapOffsetPayload(msg), Len(msg))), TextV0)]

\* C8: handling a datagram that is too short, has a version other than 1,
\* an offset at or past its end or a text not beginning with 'v=0' leaves
\* the stream map, the device map and the shared registry unchanged and
\* sends no message
DroppedDatagramChangesNothing ==
    [][lastOp'.op = "handleSAP" /\ MustDrop[lastOp'.msg] =>
          /\ UNCHANGED <<streams, devices, globalStreamRegistry>>
          /\ emitted' = <<>>
      ]_vars

\* a datagram with version 2 was dropped while a stream was registered
DroppedOnVersion ==
    /\ lastOp.op = "handleSAP"
    /\ lastOp.msg = DgVersion2
    /\ lastOp.stage = "version"
    /\ Len(streams) = 1
    /\ Len(globalStreamRegistry) = 1
    /\ emitted = <<>>

(***************************************************************************)
(* Liveness of the TTL sweep                                               *)
(***************************************************************************)

\* the keys the arriving datagrams register
DatagramKeys ==
    UNION {KeysOf(Registrable(HandleSAPMessage(msg, address, rnd, Epoch))) :
               msg \in Datagrams, address \in {Ip10, Ip11}, rnd \in RandomIds}

\* the last step handled an announcement or deletion for key k
AnnouncementHandled(k) ==
    lastOp.op = "handleSAP" /\ k \in KeysOf(Registrable(lastOp.infos))

\* C3: a stream that is in the stream map (early enough for 120 s to pass
\* after its lastSeen) is eventually in neither the stream map nor the
\* shared registry, unless a further datagram for its key is handled
StaleStreamEventuallyRemoved ==
    \A k \in DatagramKeys :
        (/\ MapHas(streams, k)
         /\ ~AnnouncementHandled(k)
         /\ MapGet(streams, k).lastSeen + 120000 < MaxTime)
        ~> (\/ ~MapHas(streams, k) /\ ~MapHas(globalStreamRegistry, k)
            \/ AnnouncementHandled(k))

(***************************************************************************)
(* Properties of the SAP codec                                             *)
(***************************************************************************)

\* C6: the router decodes the announcement packet the sender builds from an
\* SDP text beginning with 'v=0' and a dotted IPv4 source address to the
\* same source address and exactly the same text, as an announcement
SapRoundTrip ==
    codecOut # None /\ codecPacket[1][1] = 32 =>
        /\ codecOut[1].deliver
        /\ codecOut[1].sourceIP = codecIn.ip
        /\ codecOut[1].sdpData = codecIn.sdp
        /\ codecOut[1].messageType = 0

\* the announcement of 'v=0', LF, 's=', U+00E9, 'sd' from 10.0.0.255 was
\* decoded
RoundTripNonAscii ==
    /\ codecOut # None
    /\ codecPacket[1][1] = 32
    /\ codecIn.sdp = TextV0 \o <<10, 115, 61, 233, 115, 100>>
    /\ codecIn.ip = IpEdge
    /\ codecIn.hash = 65535
    /\ Len(codecPacket[1]) = 8 + 16 + 10
    /\ codecOut[1].deliver

(***************************************************************************)
(* Properties of the RTP packet builder                                    *)
(***************************************************************************)

\* C9: the packets buildPacket returns carry the sequence numbers s, s + 1,
\* ... modulo 65536, s the sequence number the builder started with: after
\* k packets the last one carries (s + k - 1) mod 65536 and the next will
\* carry (s + k) mod 65536
SequenceNumbersWrap ==
    /\ sequenceNumber = (rtpInitial.sequenceNumber + rtpPackets) % 65536
    /\ rtpLast # None =>
           rtpLast[1][3] * 256 + rtpLast[1][4]
               = (rtpInitial.sequenceNumber + rtpPackets - 1) % 65536

\* the 8th packet of a builder that started at 65530 carries 1
WrappedFrom65530 ==
    /\ rtpInitial.sequenceNumber = 65530
    /\ rtpPackets = 8
    /\ rtpLast # None
    /\ rtpLast[1][3] = 0
    /\ rtpLast[1][4] = 1
    /\ sequenceNumber = 2

\* C10: the timestamp is an integer in 0..2^32-1 equal to the initial
\* timestamp plus the sum of the sample counts modulo 2^32, and no call of
\* buildPacket or sendAudioData ends in an error
TimestampStaysUnsigned ==
    /\ timestamp = AddMod32(rtpInitial.timestamp, rtpSamples)
    /\ ~rtpThrew

(***************************************************************************)
(* Properties of the RTP packet parser                                     *)
(***************************************************************************)

\* C11: parsePacket of a packet buildPacket returned gives version 2,
\* padding 0, extension 0, csrcCount 0, the marker given to buildPacket, the
\* low 7 bits of the builder's payload type, the builder's sequence number,
\* timestamp and ssrc of that moment, and a payload equal to the audio data.
RtpRoundTrip ==
    parserIn.built # None =>
        LET session == parserIn.built[1]
        IN  /\ parserOut # None
            /\ parserOut[1].header =
                   [version |-> 2, padding |-> 0, extension |-> 0, csrcCount |-> 0,
                    marker |-> IF session.marker THEN 1 ELSE 0,
                    payloadType |-> session.payloadType % 128,
                    sequenceNumber |-> session.sequenceNumber,
                    timestamp |-> session.timestamp,
                    ssrc |-> session.ssrc]
            /\ parserOut[1].payload = session.audioData

\* a packet built with the marker set, payload type 224, sequence number
\* 65535, timestamp 0xFFFFFFFE and three audio bytes has been parsed
RoundTripMarkedPacket ==
    /\ parserIn.built # None
    /\ parserIn.built[1].marker
    /\ parserIn.built[1].payloadType = 224
    /\ parserIn.built[1].sequenceNumber = 65535
    /\ parserIn.built[1].timestamp = Number32(65535, 65534)
    /\ parserOut # None
    /\ parserOut[1].header.payloadType = 96
    /\ parserOut[1].payload = <<255, 0, 3>>

\* C12: parsePacket returns null exactly for the buffers shorter than 12
\* bytes and the buffers whose header length (12 + csrcCount * 4, plus the
\* extension header when present) exceeds the buffer length.
DecodeNullWhenHeaderOverruns ==
    LET buffer == parserIn.buffer
        fits == Len(buffer) >= 12 /\ HeaderLength(buffer) <= Len(buffer)
    IN  (parserOut = None) <=> ~fits

RECURSIVE GapSum(_)
\* the sequence numbers skipped between neighbours of seqs
GapSum(seqs) ==
    IF Len(seqs) < 2 THEN 0
    ELSE ((seqs[2] - (seqs[1] + 1)) % 65536) + GapSum(Tail(seqs))

\* C13: since construction or reset, packetsReceived is the number of
\* packets parsed and packetsLost is the sum of (a - (p + 1)) mod 65536 over
\* each packet with sequence number a parsed after one with p: the first packet
\* adds nothing; after the sequence numbers 1, 2, 4, 5 packetsLost is 1,
\* packetsReceived is 4 and the loss rate is 1/5.
LossAccounting ==
    /\ packetsReceived = Len(parserSeqs)
    /\ packetsLost = GapSum(parserSeqs)
    /\ parserSeqs = <<1, 2, 4, 5>> =>
           /\ GetStats.packetsLost = 1
           /\ GetStats.packetsReceived = 4
           /\ GetStats.lossRate.num * 5 = GetStats.lossRate.den

\* the packets 65535, 1, 2, 4 have been parsed: one lost across the wrap,
\* one lost after it
LossAcrossWrap ==
    /\ parserSeqs = <<65535, 1, 2, 4>>
    /\ packetsLost = 2
    /\ packetsReceived = 4

(***************************************************************************)
(* Properties of the subscription manager                                  *)
(***************************************************************************)

\* the sockets of id that are binding or listening
OpenSockets(socks, id) ==
    {i \in 1..Len(socks) : /\ socks[i].subscriptionId = id
                           /\ socks[i].state \in {"binding", "listening"}}

\* C14: a subscribe whose id is that of a socket an earlier subscribe
\* created, which is binding or listening (not unsubscribed, not shut down),
\* is rejected as already existing and creates no socket, so that no id ever
\* has two such sockets.
DuplicateSubscribeRejected ==
    [][lastOp'.op = "subscribe" =>
          /\ OpenSockets(sockets, emitted'[1].payload.id) # {} =>
                 /\ ~emitted'[1].payload.success
                 /\ emitted'[1].payload.error = "Subscription already exists"
                 /\ sockets' = sockets
          /\ Cardinality(OpenSockets(sockets', emitted'[1].payload.id)) <= 1]_vars

\* C15: when the bind of a socket fails, the subscribe that created the
\* socket was answered with a failure, the socket is closed, and the socket
\* is not recorded in the socket table.
BindFailureReported ==
    [][lastOp'.op = "bindError" =>
          \A i \in 1..Len(sockets) :
              (sockets[i].state = "binding" /\ sockets'[i].state # "binding") =>
                  /\ ~sockets[i].reported
                  /\ sockets'[i].state = "closed"
                  /\ \A e \in 1..Len(rtpSockets') : rtpSockets'[e].value # i]_vars

\* C16: after the node's close (discovery.stop() and router.shutdown()),
\* every socket a subscribe created is closed and the subscription table and
\* the socket table are empty.
ShutdownClosesEverySocket ==
    [][lastOp'.op = "stop" =>
          /\ \A i \in 1..Len(sockets') : sockets'[i].state = "closed"
          /\ subscriptions' = <<>>
          /\ rtpSockets' = <<>>]_vars

\* C17: in every step other than the node's close and an unsubscribe of its
\* id - a sweep, a SAP announcement or deletion, a bind, a subscribe, the
\* passing of time - a recorded subscription stays recorded and its socket
\* stays in the socket table and listening.
SubscriptionsPersist ==
    [][\A e \in 1..Len(subscriptions) :
          LET id == subscriptions[e].key
              explicit == \/ lastOp'.op = "stop"
                          \/ lastOp'.op = "unsubscribe" /\ lastOp'.msg = id
          IN  ~explicit =>
                  /\ MapHas(subscriptions', id)
                  /\ MapHas(rtpSockets', id)
                  /\ sockets'[MapGet(rtpSockets, id)].state = "listening"]_vars

\* a sweep has just removed the stream of a recorded subscription, whose
\* socket is listening
SubscriptionOutlivedSweep ==
    /\ lastOp.op = "cleanup"
    /\ Len(RemovedEvents(emitted)) = 1
    /\ ~MapHas(globalStreamRegistry, StreamKeyA)
    /\ MapHas(subscriptions, SubscriptionId(StreamKeyA, 0))
    /\ sockets[MapGet(rtpSockets, SubscriptionId(StreamKeyA, 0))].state = "listening"

\* C18: an unsubscribe of a recorded id closes the socket the socket table
\* holds for it, removes the id from the subscription table and the socket
\* table and leaves every other entry and every other socket as it was; a
\* subscribe for a registered stream whose id is not in the subscription
\* table succeeds.
UnsubscribeRemovesOne ==
    [][/\ (lastOp'.op = "unsubscribe" /\ MapHas(subscriptions, lastOp'.msg)) =>
              LET id == lastOp'.msg
                  socket == MapGet(rtpSockets, id)
              IN  /\ emitted'[1].payload.success
                  /\ ~MapHas(subscriptions', id)
                  /\ ~MapHas(rtpSockets', id)
                  /\ sockets'[socket].state = "closed"
                  /\ \A j \in 1..Len(sockets) : j # socket => sockets'[j] = sockets[j]
                  /\ Len(sockets') = Len(sockets)
                  /\ MapKeys(subscriptions') = MapKeys(subscriptions) \ {id}
                  /\ \A k \in MapKeys(subscriptions') :
                         /\ MapGet(subscriptions', k) = MapGet(subscriptions, k)
                         /\ MapGet(rtpSockets', k) = MapGet(rtpSockets, k)
       /\ (/\ lastOp'.op = "subscribe"
           /\ MapHas(globalStreamRegistry, lastOp'.msg)
           /\ ~MapHas(subscriptions, emitted'[1].payload.id)) =>
              /\ emitted'[1].payload.success
              /\ Len(sockets') = Len(sockets) + 1]_vars

\* an unsubscribe has just removed one of two recorded subscriptions: the
\* other one is recorded and its socket is listening
UnsubscribedOneOfTwo ==
    /\ lastOp.op = "unsubscribe"
    /\ emitted[1].payload.success
    /\ Len(subscriptions) = 1
    /\ subscriptions[1].key # lastOp.msg
    /\ sockets[MapGet(rtpSockets, subscriptions[1].key)].state = "listening"
    /\ \E i \in 1..Len(sockets) :
           sockets[i].subscriptionId = lastOp.msg /\ sockets[i].state = "closed"

\* C19: a subscribe with a stream key that is not in the registry is
\* answered with the failure 'Stream not found', an unsubscribe with an id
\* that is not in the subscription table with the failure 'Subscription not
\* found'; neither changes the subscription table, the socket table or any
\* socket.
FailedCommandsChangeNothing ==
    [][/\ (lastOp'.op = "subscribe" /\ ~MapHas(globalStreamRegistry, lastOp'.msg)) =>
              /\ ~emitted'[1].payload.success
              /\ emitted'[1].payload.error = "Stream not found"
              /\ UNCHANGED svars
       /\ (lastOp'.op = "unsubscribe" /\ ~MapHas(subscriptions, lastOp'.msg)) =>
              /\ ~emitted'[1].payload.success
              /\ emitted'[1].payload.error = "Subscription not found"
              /\ UNCHANGED svars]_vars

\* a subscribe for a key that is not in the registry has just been refused
\* while a subscription is recorded
UnknownStreamRefused ==
    /\ lastOp.op = "subscribe"
    /\ ~MapHas(globalStreamRegistry, lastOp.msg)
    /\ emitted[1].payload.error = "Stream not found"
    /\ Len(subscriptions) = 1

\* C20: a datagram that arrives for a recorded subscription and is shorter
\* than 12 bytes, or whose header length exceeds it, changes no counter and
\* sends no audio event; every other datagram adds 1 to packetsReceived and
\* its length to bytesReceived of that subscription and sends one audio
\* event.
MalformedRtpNotCounted ==
    [][lastOp'.op = "rtp" =>
          LET msg == lastOp'.msg
              malformed == Len(msg) < 12 \/ HeaderLength(msg) > Len(msg)
          IN  IF malformed
              THEN subscriptions' = subscriptions /\ emitted' = <<>>
              ELSE /\ Len(emitted') = 1
                   /\ emitted'[1].topic = "audio/data"
                   /\ LET id == emitted'[1].payload.subscriptionId
                          before == MapGet(subscriptions, id)
                      IN  subscriptions' =
                              MapSet(subscriptions, id,
                                  [before EXCEPT
                                      !.packetsReceived = before.packetsReceived + 1,
                                      !.bytesReceived = before.bytesReceived + Len(msg)])]_vars


(***************************************************************************)
(* Discovery lifecycle                                                     *)
(***************************************************************************)

\* C21: start() called while discovery is starting or running changes
\* nothing, and whatever the order of start and stop calls at most one SAP
\* socket is open and at most one announcement timer and one cleanup timer
\* are active
StartIdempotent ==
    /\ [][(lastOp'.op = "start" /\ running)
            => UNCHANGED <<running, sapSocket, announcementInterval, cleanupInterval,
                           nodeStatus, sapSocketsOpen, announceTimers, cleanupTimers>>]_vars
    /\ [](sapSocketsOpen <= 1 /\ announceTimers <= 1 /\ cleanupTimers <= 1)

\* start() was called on an engine that was listening with its timers set
StartedWhileListening ==
    /\ lastOp.op = "start"
    /\ running
    /\ sapSocket = "listening"
    /\ sapSocketsOpen = 1
    /\ announceTimers = 1
    /\ cleanupTimers = 1

\* C22: when the bind of the SAP socket fails during start(), discovery is
\* not running afterwards
BindFailureStopsDiscovery ==
    [][(lastOp'.op = "socketError" /\ sapSocket = "binding") => ~running']_vars

\* C23: stop() leaves discovery not running with no socket open and no
\* timer active; on a stopped or never started engine it changes nothing;
\* while discovery is not running no announcement is sent and no sweep runs;
\* start() after stop() makes discovery running with one socket, and one
\* pair of timers once that socket listens
StopIdempotentAndQuiet ==
    /\ [][lastOp'.op = "stop"
            => /\ ~running'
               /\ sapSocketsOpen' = 0
               /\ announceTimers' = 0 /\ ~announcementInterval'.active
               /\ cleanupTimers' = 0 /\ ~cleanupInterval'.active]_vars
    /\ [][(lastOp'.op = "stop" /\ ~running)
            => UNCHANGED <<running, sapSocket, announcementInterval, cleanupInterval,
                           sapSocketsOpen, announceTimers, cleanupTimers>>]_vars
    /\ [][~running => (sapSends' = 0 /\ lastOp'.op \notin {"announce", "cleanup"})]_vars
    /\ [][(lastOp.op = "stop" /\ lastOp'.op = "start")
            => (running' /\ sapSocket' = "binding" /\ sapSocketsOpen' = 1)]_vars
    /\ [][lastOp'.op = "listening"
            => (running' /\ sapSocketsOpen' = 1 /\ announceTimers' = 1
                /\ cleanupTimers' = 1)]_vars

\* stop() was called on an engine that was never started
StoppedNeverStarted == lastOp.op = "stop" /\ sapSocket = "null" /\ ~running

\* C24: after the node's 'close' event no SAP socket is open and no
\* announcement or cleanup timer is active
ClosedNodeHoldsNothing ==
    [](nodeClosed => (sapSocketsOpen = 0 /\ announceTimers = 0 /\ cleanupTimers = 0))


(***************************************************************************)
(* Jitter buffer                                                           *)
(***************************************************************************)

\* the bytes of a queue of chunks, oldest first
Flatten(bufs) ==
    LET RECURSIVE Cat(_)
        Cat(i) == IF i > Len(bufs) THEN <<>> ELSE bufs[i] \o Cat(i + 1)
    IN  Cat(1)

\* C25: the bytes buffered never exceed a tenth of the bytes of one second;
\* an append that keeps the total at or below that cap drops nothing, and
\* one that pushes it above drops chunks from the head, and stops at the
\* first chunk whose removal leaves at most 80% of the cap
JitterBufferCapped ==
    /\ [](Len(Flatten(buffers)) * 10 <= BytesPerSecond(bufferFormat))
    /\ [][bufferOp'.op = "append"
            => LET size == bufferOp'.size
                   pushed == Append(buffers, [i \in 1..size |-> bufferAppended + i - 1])
                   still(k) == Len(Flatten(SubSeq(pushed, k, Len(pushed))))
               IN  IF (Len(Flatten(buffers)) + size) * 10 <= BytesPerSecond(bufferFormat)
                   THEN buffers' = pushed
                   ELSE \E k \in 1..Len(pushed) :
                            /\ buffers' = SubSeq(pushed, k + 1, Len(pushed))
                            /\ still(k + 1) * 100 <= BytesPerSecond(bufferFormat) * 8
                            /\ still(k) * 100 > BytesPerSecond(bufferFormat) * 8]_vars

\* a chunk of 11 bytes, more than the cap, was appended and the trimming
\* dropped every chunk
OversizedChunkDropped ==
    /\ bufferOp.op = "append"
    /\ bufferOp.size = 11
    /\ buffers = <<>>

\* C26: a read of n bytes returns null and changes nothing when fewer than
\* n bytes are buffered, and otherwise returns the n oldest bytes and leaves
\* the rest, n bytes fewer
ReadAllOrNothing ==
    [][bufferOp'.op = "read"
         => LET n == bufferOp'.size
                all == Flatten(buffers)
            IN  IF Len(all) < n
                THEN bufferOp'.result = None /\ buffers' = buffers
                ELSE /\ bufferOp'.result = Some(SubSeq(all, 1, n))
                     /\ Flatten(buffers') = SubSeq(all, n + 1, Len(all))
                     /\ BufferedAmount(buffers') = BufferedAmount(buffers) - n]_vars

\* 50 ms (5 bytes at 10 ms a byte) were appended and 30 ms read: 20 ms are
\* left
ReadThirtyOfFifty ==
    /\ BytesPerSecond(bufferFormat) = 100
    /\ bufferAppended = 5
    /\ bufferOp = [op |-> "read", size |-> 3, result |-> Some(<<0, 1, 2>>)]
    /\ buffers = <<(<<3, 4>>)>>


(***************************************************************************)
(* Sender node                                                             *)
(***************************************************************************)

\* positions of senderLog whose event is a packet handed to the SAP socket
SentAt == {i \in 1..Len(senderLog) : senderLog[i].event = "send"}

\* C27: once a sender with SAP enabled has handled 'close', its log ends
\* with: the announcement interval cleared, then one packet handed to the SAP
\* socket, then that socket closed, then the RTP socket closed; that packet
\* is the announcement packet with byte 0 = 0x24 in place of 0x20 (same
\* message-id hash, same source, same SDP text); every packet handed to the
\* socket before it is that announcement packet, none follows it, and the
\* interval is no longer active
SenderCloseOrder ==
    (senderClosed /\ sapAnnouncer # None) =>
        LET n == Len(senderLog)
            announcement == senderLog[4].packet
        IN  /\ n >= 8
            /\ senderLog[4].event = "send"
            /\ announcement[1] = 32
            /\ senderLog[n - 3] = Event("clearInterval")
            /\ senderLog[n - 2] = SendEvent(<<36>> \o Tail(announcement))
            /\ senderLog[n - 1] = Event("close")
            /\ senderLog[n] = Event("closeRtpSocket")
            /\ \A i \in SentAt : i < n - 2 => senderLog[i].packet = announcement
            /\ \A i \in SentAt : i <= n - 2
            /\ ~sapAnnouncer[1].announcementInterval.active
            /\ sapAnnouncer[1].sapSocket = "closed"

\* a sender closed after its timer had sent announcements: the first
\* announcement, two from the timer, the deletion
SenderClosedAfterAnnouncing ==
    /\ senderClosed
    /\ sapAnnouncer # None
    /\ Cardinality(SentAt) >= 4
    /\ senderLog[Len(senderLog) - 2].packet[1] = 36


(***************************************************************************)
(* Receiver node                                                           *)
(***************************************************************************)

\* C28: once the receiver node has handled 'close', its RTP socket is
\* closed and its statistics interval is no longer active, whatever the
\* socket's memberships were
ReceiverCloseReleases ==
    receiverClosed => (receiverSocket = "closed" /\ ~receiverStats.active)

\* the statistics interval is cleared by every close, before the socket is
\* touched
ReceiverCloseClearsStats ==
    receiverClosed => ~receiverStats.active


(***************************************************************************)
(* SAP packet layout                                                       *)
(***************************************************************************)

\* C29: every SAP packet built, by the sender (announcement and deletion)
\* or by the discovery engine, is: 8 header bytes (byte 0 = 0x20 for an
\* announcement and 0x24 for a deletion, byte 1 = 0, bytes 4-7 the source
\* address), then the 16 bytes 'application/sdp' and a null byte, then the
\* whole SDP text as UTF-8
SapPacketLayout ==
    (sapBuilt # None /\ sapBuilt[1].packet # None) =>
        LET packet == sapBuilt[1].packet[1]
            input == sapInput[1]
        IN  /\ Len(packet) = 8 + 16 + Len(Utf8Encode(input.sdp))
            /\ packet[1] = (IF sapBuilt[1].type = "announce" THEN 32 ELSE 36)
            /\ packet[2] = 0
            /\ \A i \in 0..3 : packet[5 + i] = IpByte(input.ip, i)
            /\ SubSeq(packet, 9, 24) = TextApplicationSdp \o <<0>>
            /\ SubSeq(packet, 25, Len(packet)) = Utf8Encode(input.sdp)

\* the layout of the packets the sender builds
SenderPacketLayout ==
    (sapBuilt # None /\ sapBuilt[1].by = "sender") => SapPacketLayout

\* the discovery engine's packet: the header, the 8 bytes 'applicat', then
\* the SDP text; no byte is left unwritten
DiscoveryPacketLayout ==
    (sapBuilt # None /\ sapBuilt[1].by = "discovery") =>
        /\ sapBuilt[1].packet # None
        /\ LET packet == sapBuilt[1].packet[1]
               input == sapInput[1]
           IN  /\ Len(packet) = 8 + 8 + Len(Utf8Encode(input.sdp))
               /\ SubSeq(packet, 1, 4) = <<32, 0, 0, 0>>
               /\ \A i \in 0..3 : packet[5 + i] = IpByte(input.ip, i)
               /\ SubSeq(packet, 9, 16) = SubSeq(TextApplicationSdp, 1, 8)
               /\ SubSeq(packet, 17, Len(packet)) = Utf8Encode(input.sdp)


(***************************************************************************)
(* RTP padding                                                             *)
(***************************************************************************)

\* the bytes of the datagram last parsed that follow its header
RawPayload == Slice(parserIn.buffer, HeaderLength(parserIn.buffer), Len(parserIn.buffer))

\* the datagram last parsed was decoded, has the padding bit set and a
\* payload of at least one byte
PaddedPacketParsed ==
    /\ parserOut # None
    /\ parserOut[1].header.padding = 1
    /\ Len(RawPayload) > 0

\* C30: for a decoded packet with the padding bit set whose last payload
\* byte is p, the payload returned is the raw payload without its last p
\* bytes when p is at most the raw payload's length (all of it when p = 0),
\* and some part of the raw payload's start when p is larger
PaddingCountStripped ==
    PaddedPacketParsed =>
        LET p == RawPayload[Len(RawPayload)]
        IN  IF p <= Len(RawPayload)
            THEN parserOut[1].payload = SubSeq(RawPayload, 1, Len(RawPayload) - p)
            ELSE \E n \in 0..Len(RawPayload) : parserOut[1].payload = SubSeq(RawPayload, 1, n)

\* the same for the counts from 1 on: the last p bytes are removed, and a
\* count above the payload's length removes all of it
PositivePaddingStripped ==
    (PaddedPacketParsed /\ RawPayload[Len(RawPayload)] > 0) =>
        LET p == RawPayload[Len(RawPayload)]
        IN  parserOut[1].payload =
                IF p <= Len(RawPayload) THEN SubSeq(RawPayload, 1, Len(RawPayload) - p)
                ELSE <<>>

\* a padding count of 0 leaves no payload at all
ZeroPaddingEmptiesPayload ==
    (PaddedPacketParsed /\ RawPayload[Len(RawPayload)] = 0) => parserOut[1].payload = <<>>


(***************************************************************************)
(* Stream format                                                           *)
(***************************************************************************)

\* the audio RTP/AVP media sections of an SDP text, in order
AudioSections(sdpString) ==
    SelectSeq(SdpParseTable[sdpString].media,
              LAMBDA m : m.type = Some(TextAudio) /\ m.protocol = Some(TextRtpAvp))

\* the positions of the a=rtpmap entries of a media section whose payload
\* number is in the section's format list
MatchingRtpmaps(media) ==
    LET formats == IF media.payloads = None THEN {}
                   ELSE {Split(media.payloads[1], 32)[j] :
                            j \in 1..Len(Split(media.payloads[1], 32))}
    IN  {i \in 1..Len(media.rtp) : media.rtp[i].payload \in formats}

\* channels, sampleRate and encoding as the first matching a=rtpmap entry of
\* the section gives them, the defaults where it gives none
FormatOfRtpmap(media) ==
    IF MatchingRtpmaps(media) = {}
    THEN [channels |-> 2, sampleRate |-> AES67_SAMPLE_RATE, encoding |-> TextL24]
    ELSE LET entry == media.rtp[MinOf(MatchingRtpmaps(media))]
         IN  [channels |-> IF entry.encoding = None THEN 2
                           ELSE OrDefault(ParseInt(entry.encoding[1]), 2),
              sampleRate |-> IF entry.rate = None \/ entry.rate = Some(0)
                             THEN AES67_SAMPLE_RATE ELSE entry.rate[1],
              encoding |-> entry.codec]

\* C31: every descriptor handed to registerStream for an audio RTP/AVP media
\* section has the channels, sampleRate and encoding of the first a=rtpmap
\* entry matching the section's format list, and 2, 48000 and L24 only when
\* there is no such entry
RtpmapGivesFormat ==
    lastOp.op = "handleSAP" =>
        \A i \in 1..Len(lastOp.infos) :
            LET info == lastOp.infos[i]
                format == FormatOfRtpmap(AudioSections(info.sdp)[i])
            IN  /\ info.channels = format.channels
                /\ info.sampleRate = format.sampleRate
                /\ info.encoding = format.encoding

\* what the descriptors hold: 2, 48000 and L24, whatever the section's
\* a=rtpmap entries are
FormatAlwaysDefault ==
    lastOp.op = "handleSAP" =>
        \A i \in 1..Len(lastOp.infos) :
            /\ lastOp.infos[i].channels = 2
            /\ lastOp.infos[i].sampleRate = AES67_SAMPLE_RATE
            /\ lastOp.infos[i].encoding = TextL24


(***************************************************************************)
(* Device table                                                            *)
(***************************************************************************)

\* the source addresses of the descriptors registerStream accepts among
\* infos
RegisteredSources(infos) ==
    {infos[i].sourceIP : i \in {j \in 1..Len(infos) :
                                   infos[j].sourceIP # <<>> /\ infos[j].port # 0}}

\* each device is listed once, lists no stream key twice, and every stream
\* of the stream map is listed by the device of its source address
DevicesListStreams ==
    /\ \A i, j \in 1..Len(devices) : devices[i].key = devices[j].key => i = j
    /\ \A d \in 1..Len(devices) :
           \A i, j \in 1..Len(devices[d].value.streams) :
               devices[d].value.streams[i] = devices[d].value.streams[j] => i = j
    /\ \A s \in 1..Len(streams) :
           /\ MapHas(devices, streams[s].value.sourceIP)
           /\ LET listed == MapGet(devices, streams[s].value.sourceIP).streams
              IN  \E i \in 1..Len(listed) : listed[i] = streams[s].key

\* C32: there is no device before the first registration, a step adds
\* devices exactly for the source addresses of the streams it registers and
\* removes none, so a device exists for an address exactly when a stream from
\* it has been registered; and at every moment no device lists a key twice
\* and every stream of the stream map is listed by the device of its address
DeviceTableFollowsRegistrations ==
    /\ devices = <<>>
    /\ []DevicesListStreams
    /\ [][MapKeys(devices') = MapKeys(devices) \cup
              (IF lastOp'.op = "handleSAP" THEN RegisteredSources(lastOp'.infos) ELSE {})]_vars

\* a sweep has emptied the stream map and a device that listed two
\* streams still lists both keys
DeviceOutlivesItsStreams ==
    /\ lastOp.op = "cleanup"
    /\ streams = <<>>
    /\ \E d \in 1..Len(devices) : Len(devices[d].value.streams) >= 2


(***************************************************************************)
(* Format of audio events                                                  *)
(***************************************************************************)

\* encoding, channels and sampleRate of a descriptor
FormatOf(stream) ==
    [encoding |-> stream.encoding, channels |-> stream.channels,
     sampleRate |-> stream.sampleRate]

\* C33: the descriptor a subscribe call captures has the encoding, channels
\* and sampleRate of the registry's descriptor of the stream at that moment;
\* no later step (announcement, deletion, sweep, bind, packet) changes what
\* was captured; and every audio event carries the format captured for the
\* subscription the subscription table holds under the event's id
FormatFixedAtSubscribe ==
    [][/\ Len(sockets') >= Len(sockets)
       /\ \A i \in 1..Len(sockets) : sockets'[i].stream = sockets[i].stream
       /\ Len(sockets') > Len(sockets) =>
              FormatOf(sockets'[Len(sockets')].stream) =
                  FormatOf(MapGet(globalStreamRegistry, lastOp'.msg))
       /\ lastOp'.op = "rtp" =>
              \A e \in 1..Len(emitted') :
                  emitted'[e].topic = "audio/data" =>
                      emitted'[e].payload.format =
                          FormatOf(sockets[MapGet(rtpSockets,
                                       emitted'[e].payload.subscriptionId)].stream)]_vars

\* an audio event emitted for a subscription whose stream the sweep has
\* removed from the registry
AudioAfterSweep ==
    /\ lastOp.op = "rtp"
    /\ Len(emitted) = 1
    /\ emitted[1].topic = "audio/data"
    /\ emitted[1].payload.format =
           [encoding |-> TextL24, channels |-> 2, sampleRate |-> AES67_SAMPLE_RATE]
    /\ ~MapHas(globalStreamRegistry, StreamKeyA)

\* an audio event emitted after a deletion message marked the stream deleted
AudioAfterDeletion ==
    /\ lastOp.op = "rtp"
    /\ Len(emitted) = 1
    /\ emitted[1].topic = "audio/data"
    /\ MapHas(globalStreamRegistry, StreamKeyA)
    /\ MapGet(globalStreamRegistry, StreamKeyA).status = "deleted"


(***************************************************************************)
(* Jitter buffer order                                                     *)
(***************************************************************************)

\* C34: the bytes delivered by the successful reads so far, in order, are
\* bytes of the appended stream in their order of appending, none twice;
\* and as long as no append went above the cap and clear() was not called,
\* they are the first bytes of the stream with none missing, and the bytes
\* still buffered are the rest of it
JitterBufferFifo ==
    /\ \A i \in 1..Len(bufferDelivered) :
           bufferDelivered[i] >= 0 /\ bufferDelivered[i] < bufferAppended
    /\ \A i, j \in 1..Len(bufferDelivered) :
           i < j => bufferDelivered[i] < bufferDelivered[j]
    /\ ~bufferLossy =>
           bufferDelivered \o Flatten(buffers) = [i \in 1..bufferAppended |-> i - 1]

\* reads whose sizes do not match the chunks appended: chunks of 2, 5 and 2
\* bytes, read as 3, 3 and 3 bytes, nothing dropped
ReadsAcrossChunks ==
    /\ ~bufferLossy
    /\ bufferAppended = 9
    /\ bufferDelivered = <<0, 1, 2, 3, 4, 5, 6, 7, 8>>
    /\ bufferOp = [op |-> "read", size |-> 3, result |-> Some(<<6, 7, 8>>)]

\* bytes were dropped by the trimming, and the reads after it delivered
\* later bytes in order
DeliveredAfterTrim ==
    /\ bufferLossy
    /\ Len(bufferDelivered) >= 2
    /\ \E i \in 1..(Len(bufferDelivered) - 1) :
           bufferDelivered[i + 1] > bufferDelivered[i] + 1


(***************************************************************************)
(* Announced format                                                        *)
(***************************************************************************)

\* C35: when the router has handled the packet of a sender configured with
\* channels N, sample rate R and encoding E, the stream is in the registry
\* with channels N, sampleRate R and encoding E
AnnouncedFormatRegistered ==
    lastOp.op = "handleSAP" =>
        /\ Len(globalStreamRegistry) = 1
        /\ LET stream == globalStreamRegistry[1].value
               config == sapInput[1].config
           IN  /\ stream.channels = config.channels
               /\ stream.sampleRate = config.sampleRate
               /\ stream.encoding = config.encoding

\* what the router registers for the sender's packet: the stream under
\* the sender's address and port, with 2 channels, 48000 Hz and L24
\* whatever the sender's configuration
AnnouncedRegisteredWithDefaults ==
    lastOp.op = "handleSAP" =>
        /\ Len(globalStreamRegistry) = 1
        /\ LET stream == globalStreamRegistry[1].value
               config == sapInput[1].config
           IN  /\ globalStreamRegistry[1].key = config.sourceIP \o <<58>> \o Decimal(config.port)
               /\ stream.name = config.streamName
               /\ stream.destIP = config.destIP
               /\ stream.channels = 2
               /\ stream.sampleRate = AES67_SAMPLE_RATE
               /\ stream.encoding = TextL24

\* the SDP text of the sender parses back to the session object's format:
\* one media section whose rtp entry holds the configured codec, rate and
\* channel count
SdpKeepsFormat ==
    sapInput # None =>
        LET session == SdpParse(sapInput[1].sdp)
            config == sapInput[1].config
        IN  /\ Len(session.media) = 1
            /\ session.media[1].rtp =
                   <<[payload |-> Decimal(config.payloadType), codec |-> config.encoding,
                      rate |-> Some(config.sampleRate),
                      encoding |-> Some(Decimal(config.channels))]>>


(***************************************************************************)
(* Subscription table and socket table                                     *)
(***************************************************************************)

\* C36: in every state subscribes, bind callbacks, bind errors, packets,
\* unsubscribes and the node's close lead to, the subscription table and
\* the socket table hold the same ids, each once, and every socket the
\* socket table holds is open (bound and not closed)
TablesHoldSameIds ==
    /\ MapKeys(subscriptions) = MapKeys(rtpSockets)
    /\ Cardinality(MapKeys(subscriptions)) = Len(subscriptions)
    /\ Cardinality(MapKeys(rtpSockets)) = Len(rtpSockets)
    /\ \A e \in 1..Len(rtpSockets) :
           /\ rtpSockets[e].value \in 1..Len(sockets)
           /\ sockets[rtpSockets[e].value].state = "listening"
           /\ sockets[rtpSockets[e].value].subscriptionId = rtpSockets[e].key

\* the bind callback of a socket has run after the node was closed: the
\* subscription and its socket are recorded in the tables shutdown() cleared
BoundAfterShutdown ==
    /\ ~running
    /\ lastOp.op = "bound"
    /\ Len(subscriptions) = 1
    /\ Len(rtpSockets) = 1

\* two subscribes for one id were both accepted before either bind
\* callback ran: both sockets are open, the socket table holds the second
SocketOutsideTheTable ==
    /\ Len(sockets) = 2
    /\ sockets[1].subscriptionId = sockets[2].subscriptionId
    /\ sockets[1].state = "listening"
    /\ sockets[2].state = "listening"
    /\ Len(rtpSockets) = 1


(***************************************************************************)
(* Nodes sharing the registry                                              *)
(***************************************************************************)

\* the engine with these streams and this sweep timer holds key k and
\* sweeps
HeldAndSwept(map, timer, k) == MapHas(map, k) /\ timer.active

\* C37: every stream list_streams returns on a node that is not closed can
\* be resolved by a subscribe on that node (it does not fail with 'Stream
\* not found'), and every key of the shared registry is in the stream map
\* of an engine whose sweep timer is active
ListedStreamsResolve ==
    /\ ~nodeClosed =>
           \A i \in 1..Len(GetStreams(streams)) :
               ~StreamNotFound(globalStreamRegistry, StreamKey(GetStreams(streams)[i]))
    /\ peer.running =>
           \A i \in 1..Len(GetStreams(peer.streams)) :
               ~StreamNotFound(globalStreamRegistry, StreamKey(GetStreams(peer.streams)[i]))
    /\ \A k \in MapKeys(globalStreamRegistry) :
           \/ HeldAndSwept(streams, cleanupInterval, k)
           \/ HeldAndSwept(peer.streams, peer.cleanupInterval, k)

\* every key of the shared registry is in the stream map of some engine,
\* sweeping or not
RegistryKeysAreHeld ==
    \A k \in MapKeys(globalStreamRegistry) : MapHas(streams, k) \/ MapHas(peer.streams, k)

\* a subscribe on the first node has just failed with 'Stream not found'
\* for a stream the node lists: the second node's sweep removed it from the
\* registry
ListedStreamNotFound ==
    /\ lastOp.op = "subscribe"
    /\ emitted[1].payload.error = "Stream not found"
    /\ MapHas(streams, lastOp.msg)
    /\ ~nodeClosed

\* the registry holds a key neither engine will sweep: the node that
\* registered it is closed and the other never heard of it
RegistryKeyNeverSwept ==
    /\ nodeClosed
    /\ peer.running
    /\ \E k \in MapKeys(globalStreamRegistry) :
           ~MapHas(peer.streams, k) /\ ~cleanupInterval.active


(***************************************************************************)
(* Discovered before active, discovered before removed                     *)
(***************************************************************************)

\* C38: for every stream of the registry whose status is active a
\* stream/discovered message for its key was sent since the key was last
\* absent from the registry, and every stream/removed message is preceded
\* by a stream/discovered message for the same key
ActiveStreamsWereDiscovered ==
    /\ \A e \in 1..Len(globalStreamRegistry) :
           globalStreamRegistry[e].value.status = "active" =>
               globalStreamRegistry[e].key \in notified.since
    /\ \A i \in 1..Len(RemovedEvents(emitted)) :
           StreamKey(RemovedEvents(emitted)[i].payload) \in notified.ever

\* a stream is active in the registry and no stream/discovered message was
\* ever sent for it: its deletion arrived first, its announcement next
ActiveNeverDiscovered ==
    /\ lastOp.op = "handleSAP"
    /\ \E e \in 1..Len(globalStreamRegistry) :
           /\ globalStreamRegistry[e].value.status = "active"
           /\ globalStreamRegistry[e].key \notin notified.ever

\* the sweep has sent stream/removed for a stream no stream/discovered
\* message was ever sent for
RemovedNeverDiscovered ==
    /\ lastOp.op = "cleanup"
    /\ \E i \in 1..Len(RemovedEvents(emitted)) :
           StreamKey(RemovedEvents(emitted)[i].payload) \notin notified.ever

\* a stream announced and announced again is active; no message is sent
\* for the second announcement, the stream/discovered message was sent for
\* the first
AnnouncedAgainWasDiscovered ==
    /\ lastOp.op = "handleSAP"
    /\ emitted = <<>>
    /\ \E e \in 1..Len(globalStreamRegistry) :
           /\ globalStreamRegistry[e].value.status = "active"
           /\ globalStreamRegistry[e].key \in notified.since


(***************************************************************************)
(* Duplicated and late packets                                             *)
(***************************************************************************)

\* the sequence numbers absent between a and the next received one b
AbsentBetween(a, b) == (b - a - 1 + 65536) % 65536

\* the sequence numbers never received: those absent from the shortest run
\* of consecutive sequence numbers (modulo 2^16) that holds every received
\* one
NeverReceived(received) ==
    LET after(a) == IF received = {a} THEN 65535
                    ELSE MinOf({AbsentBetween(a, b) : b \in received \ {a}})
        outside == CHOOSE g \in {after(a) : a \in received} :
                       \A a \in received : after(a) <= g
    IN  65536 - Cardinality(received) - outside

\* seq repeats last or comes before it (by less than half the range)
DuplicateOrLate(last, seq) == (last - seq + 65536) % 65536 < 32768

\* C40: a parsed packet whose sequence number repeats the previous one or
\* is behind it adds to packetsLost at most the number of sequence numbers
\* never received, and one that repeats the previous sequence number adds
\* nothing
DuplicateAddsNoLoss ==
    [][(/\ lastSequence # None
        /\ Len(parserSeqs') = Len(parserSeqs) + 1
        /\ DuplicateOrLate(lastSequence[1], lastSequence'[1])) =>
           /\ packetsLost' - packetsLost
                  <= NeverReceived({parserSeqs'[i] : i \in 1..Len(parserSeqs')})
           /\ lastSequence'[1] = lastSequence[1] => packetsLost' = packetsLost]_vars

\* what a duplicated or late packet does add: 65536 less the distance it
\* is behind the sequence number expected, 65535 for a repeated one
DuplicateAddsAlmostAll ==
    [][(/\ lastSequence # None
        /\ Len(parserSeqs') = Len(parserSeqs) + 1
        /\ DuplicateOrLate(lastSequence[1], lastSequence'[1])) =>
           packetsLost' - packetsLost
               = 65535 - ((lastSequence[1] - lastSequence'[1] + 65536) % 65536)]_vars

\* the same sequence number was parsed twice in a row, and 65535 packets
\* are counted as lost with none missing
RepeatCountedAsLoss ==
    /\ Len(parserSeqs) = 2
    /\ parserSeqs[1] = parserSeqs[2]
    /\ packetsLost = 65535


(***************************************************************************)
(* Audio messages in buffer mode                                           *)
(***************************************************************************)

ChunkAboveCap == ChunkSize(receiverFormat) * 10 > BytesPerSecond(bufferFormat)

\* while 10 ms of the subscribed format is more than the buffer's cap, the
\* buffer never holds a chunk and no audio message is sent, however many
\* packets have arrived
ChunkAboveCapStarves ==
    ChunkAboveCap =>
        /\ BufferedAmount(buffers) < ChunkSize(receiverFormat)
        /\ receiverOp.audio = None

\* the receiver runs, bound or subscribed just now, and 10 ms of its format
\* is at most the buffer's cap
StartsWithinCap ==
    /\ ReceiverRunning
    /\ receiverOp.op \in {"bound", "subscribe"}
    /\ ChunkSize(receiverFormat) * 10 <= BytesPerSecond(bufferFormat)

\* an audio message was sent by the last packet, or the node is closed or
\* subscribed to a format above the cap
PlayedOrStopped ==
    \/ receiverOp.audio # None
    \/ receiverClosed
    \/ ChunkSize(receiverFormat) * 10 > BytesPerSecond(bufferFormat)

\* while 10 ms of the format is at most the buffer's cap, packets that
\* keep arriving do lead to an audio message, before and after a subscribe
\* (unless the node is closed or subscribed to a format above the cap first)
ChunkWithinCapPlays == StartsWithinCap ~> PlayedOrStopped

\* the receiver was subscribed to a stream of sixteen channels and every
\* packet allowed has arrived since: no audio message
StarvedAfterSubscribe ==
    /\ ReceiverRunning
    /\ receiverFormat.channels = 16
    /\ Len(parserSeqs) = MaxParsed
    /\ receiverOp = [op |-> "rtp", audio |-> None]

\* an audio message was sent after a subscribe to a stream of two channels
\* at twice the rate, in chunks computed from the new format
PlayedAfterSubscribe ==
    /\ receiverFormat.channels = 2
    /\ receiverFormat.sampleRate = 200
    /\ receiverOp.audio # None
    /\ Len(receiverOp.audio[1].payload) = ChunkSize(receiverFormat)

=============================================================================
